---- MODULE Spec2Model ----
(***************************************************************************)
(* Anghami -> Spotify migrator: the migration session orchestrator         *)
(* (backend/services/migration_service.py), the playlist creator           *)
(* (src/extractors/spotify_playlist_creator.py) and the track matching     *)
(* engine with its search cache (src/extractors/spotify_track_matcher.py). *)
(*                                                                         *)
(* Each component has its own specification over its own variables; the    *)
(* variables of the other components are held at their idle values.        *)
(***************************************************************************)
EXTENDS Integers, Sequences, FiniteSets, TLC

VARIABLES
    \* ---- migration sessions (migration_service.py)
    migration_sessions,   \* registry: session id -> MigrationStatus record
    task,                 \* session id -> the coroutine's locals and await point
    stoppedDuring,        \* history: the await points at which stop() hit a session
    \* ---- one create_playlist_from_matches call (spotify_playlist_creator.py)
    anghami_playlist,     \* argument: the source playlist
    match_results,        \* argument: list of MatchResult
    skip_user_review,     \* argument
    cpc,                  \* position of the call
    result,               \* the PlaylistCreationResult being filled in
    track_uris,           \* local of create_playlist_from_matches
    batch_i,              \* loop variable i of _add_tracks_to_playlist
    added_count,          \* local of _add_tracks_to_playlist
    failed_tracks,        \* local of _add_tracks_to_playlist
    add_calls,            \* the uris payload of every POST .../tracks request made
    creator_stats,        \* self.stats of the creator
    \* ---- one _calculate_confidence call (spotify_track_matcher.py)
    score_track,          \* argument: the AnghamiTrack
    score_item,           \* arguments: the catalog item's title and artists
    score_out,            \* None, or the <<final_score, reasons>> returned
    \* ---- the SpotifyTrackMatcher and one match_track call
    cache,                \* self.cache.cache: key -> [data, timestamp]
    now,                  \* the wall clock, in milliseconds
    last_request_time,    \* self.last_request_time, in milliseconds
    matcher_stats,        \* self.stats of the matcher
    search_log,           \* history: one entry per _search_spotify call
    request_log,          \* history: kind and time of every request to the catalog
    m_track,              \* argument of match_track: the AnghamiTrack
    mpc,                  \* position of the match_track call
    m_result,             \* the MatchResult being filled in
    m_local,              \* locals of match_track and of the coroutines it awaits
    \* ---- one migrate_playlists call (spotify_playlist_creator.py)
    playlists_with_matches, \* argument: the (playlist, match results) pairs
    report,               \* the MigrationReport being filled in
    mig_pc,               \* position of the migrate_playlists call
    mig_i,                \* number of loop iterations completed
    \* ---- one match_playlist call (spotify_track_matcher.py)
    pl_tracks,            \* argument: anghami_playlist.tracks
    pl_results,           \* the list of MatchResults being built
    pl_pc,                \* position of the match_playlist call
    pl_i,                 \* number of loop iterations completed
    \* ---- the progress channels (websocket/handlers.py)
    websocket_connections, \* the ids that have a registered WebSocket
    ws,                   \* id -> position of websocket_endpoint for that id
    ws_last,              \* history: id -> None, or the last snapshot sent
    \* ---- one make_authenticated_request call (spotify_auth.py)
    attempt,              \* the loop variable of `for attempt in range(max_retries)`
    rpc,                  \* position of the call
    http_log,             \* history: the answer to every HTTP request issued
    slept,                \* history: the seconds of every time.sleep
    req_returned,         \* None, or the response the call returned
    \* ---- calls made on the SpotifySearchCache itself
    cache_log,            \* history: every get and set with what it returned
    \* ---- one ArabicTransliterator.is_arabic_text call
    script_text,          \* argument: the text
    script_out,           \* None, or the bool returned
    \* ---- one _search_artist_discography call (spotify_track_matcher.py)
    disc_albums,          \* the artist's albums in the catalog, each a list of tracks
    disc_title,           \* argument: track_title
    disc_pc,              \* position of the call
    disc_requested,       \* history: the albums whose tracks were requested
    disc_matches,         \* matching_tracks
    \* ---- one _upload_cover_art call (spotify_playlist_creator.py)
    cover_image,          \* the source image: the sizes its JPEG encodings have
    cover_pc,             \* position of the call
    cover_data,           \* None, or the size in bytes of processed_data
    cover_uploads,        \* history: the sizes of the images uploaded
    \* ---- two match tasks that share the matcher (spotify_track_matcher.py)
    search_tasks          \* task -> its _search_spotify call and the calls it made

sessVars == <<migration_sessions, task, stoppedDuring>>

creatorVars == <<anghami_playlist, match_results, skip_user_review, cpc, result,
                 track_uris, batch_i, added_count, failed_tracks, add_calls,
                 creator_stats>>

scoreVars == <<score_track, score_item, score_out>>

searchVars == <<cache, now, last_request_time, matcher_stats, search_log,
                request_log>>

callVars == <<m_track, mpc, m_result, m_local>>

matcherVars == <<searchVars, callVars>>

migrateVars == <<playlists_with_matches, report, mig_pc, mig_i>>

\* the components that have no part in the sessions, the creator's single
\* call, the scoring and the matcher's single call
playlistVars == <<pl_tracks, pl_results, pl_pc, pl_i>>

wsVars == <<websocket_connections, ws, ws_last>>

requestVars == <<attempt, rpc, http_log, slept, req_returned>>

cacheCallVars == <<cache_log>>

textVars == <<script_text, script_out>>

\* the components added after the cache calls
discVars == <<disc_albums, disc_title, disc_pc, disc_requested, disc_matches>>

coverVars == <<cover_image, cover_pc, cover_data, cover_uploads>>

matchTaskVars == <<search_tasks>>

extraVars == <<textVars, discVars, coverVars, matchTaskVars>>

otherVars == <<migrateVars, playlistVars, wsVars, requestVars, cacheCallVars, extraVars>>

vars == <<sessVars, creatorVars, scoreVars, matcherVars, otherVars>>

\* what the actions of one component leave alone
notSess == <<creatorVars, scoreVars, matcherVars, otherVars>>

notCreator == <<sessVars, scoreVars, matcherVars, otherVars>>

notScore == <<sessVars, creatorVars, matcherVars, otherVars>>

notMatcher == <<sessVars, creatorVars, scoreVars, otherVars>>

notMigrate ==
    <<sessVars, scoreVars, matcherVars, playlistVars, wsVars, requestVars,
      cacheCallVars, extraVars>>

notPlaylist ==
    <<sessVars, creatorVars, scoreVars, migrateVars, wsVars, requestVars,
      cacheCallVars, extraVars>>

notWs ==
    <<creatorVars, scoreVars, matcherVars, migrateVars, playlistVars, requestVars,
      cacheCallVars, extraVars>>

notRequest ==
    <<sessVars, creatorVars, scoreVars, matcherVars, migrateVars, playlistVars, wsVars,
      cacheCallVars, extraVars>>

\* what a call on the cache leaves alone
notCache ==
    <<sessVars, creatorVars, scoreVars, last_request_time, matcher_stats, search_log,
      request_log, callVars, migrateVars, playlistVars, wsVars, requestVars,
      extraVars>>

notText ==
    <<sessVars, creatorVars, scoreVars, matcherVars, migrateVars, playlistVars, wsVars,
      requestVars, cacheCallVars, discVars, coverVars, matchTaskVars>>

notDisc ==
    <<sessVars, creatorVars, scoreVars, matcherVars, migrateVars, playlistVars, wsVars,
      requestVars, cacheCallVars, textVars, coverVars, matchTaskVars>>

notCover ==
    <<sessVars, creatorVars, scoreVars, matcherVars, migrateVars, playlistVars, wsVars,
      requestVars, cacheCallVars, textVars, discVars, matchTaskVars>>

\* what a _search_spotify call of one of the two tasks leaves alone
notMatchTasks ==
    <<sessVars, creatorVars, scoreVars, callVars, migrateVars, playlistVars, wsVars,
      requestVars, cacheCallVars, textVars, discVars, coverVars>>

\* Python's None, and an Optional that holds a value
None == << >>

Some(x) == <<x>>

(***************************************************************************)
(* Bounds                                                                  *)
(***************************************************************************)
MaxPlaylists == 2

\* longest list of match results handed to the creator
MaxResults == 201

\* longest repeating pattern of result kinds a list is built from
MaxPattern == 2

\* most _search_spotify calls made on one matcher
MaxSearches == 3

\* tracks of a playlist handed to match_playlist
MaxTracks == 2

\* most get and set calls made on one cache
MaxCacheCalls == 4

\* longest text handed to is_arabic_text
MaxTextLen == 10

\* most albums an artist has in the catalog
MaxAlbums == 21

SessionIds == {"s1", "s2"}

(***************************************************************************)
(* Exact rationals <<num, den>> (den > 0) stand for the float fields.      *)
(***************************************************************************)
FracLeq(a, b) == a[1] * b[2] <= b[1] * a[2]

FracEq(a, b) == a[1] * b[2] = b[1] * a[2]

FracOfInt(k) == <<k, 1>>

(***************************************************************************)
(* simulate_migration: mock playlist data and progress formulas            *)
(***************************************************************************)
\* mock_playlists[i]["name"], i counted from 0
PlaylistName(i) == <<"Playlist", i + 1>>

\* mock_playlists[i]["trackCount"], i counted from 0
TrackCount(i) == 10 + (i * 5)

RECURSIVE SumTrackCounts(_)
\* sum(p["trackCount"] for p in mock_playlists) over the first n playlists
SumTrackCounts(n) == IF n = 0 THEN 0 ELSE TrackCount(n - 1) + SumTrackCounts(n - 1)

\* the phase's share of 25 points left out
ExtractProgressUnscaled(i, n) == <<100 * i, n>>

\* status.progress = (i / len(mock_playlists)) * 25
ExtractProgress(i, n) == <<25 * i, n>>

\* the phase offset 25 left out
MatchProgressNoOffset(matched_count, total_tracks) ==
    <<50 * matched_count, total_tracks>>

\* status.progress = 25 + (matched_count / total_tracks) * 50
MatchProgress(matched_count, total_tracks) ==
    <<25 * total_tracks + 50 * matched_count, total_tracks>>

\* status.progress = 75 + ((i + 1) / len(mock_playlists)) * 25
CreateProgress(i, n) == <<75 * n + 25 * (i + 1), n>>

\* create_migration_status(session_id, playlist_ids, total_tracks)
create_migration_status(session_id, n, total_tracks) ==
    [ sessionId          |-> session_id,
      status             |-> "extracting",
      progress           |-> FracOfInt(0),
      currentPlaylist    |-> None,
      totalPlaylists     |-> n,
      completedPlaylists |-> 0,
      totalTracks        |-> total_tracks,
      matchedTracks      |-> 0,
      createdPlaylists   |-> 0,
      errors             |-> <<>>,
      message            |-> <<"Starting playlist extraction...">> ]

IdleTask == [pc |-> "none", n |-> 0, i |-> 0, p |-> 0, track_num |-> 0,
             matched_count |-> 0, total_tracks |-> 0]

SessInit ==
    /\ migration_sessions = << >>
    /\ task = [s \in SessionIds |-> IdleTask]
    /\ stoppedDuring = [s \in SessionIds |-> {}]

(***************************************************************************)
(* The statements of simulate_migration, by block                           *)
(***************************************************************************)
\* the completion leaves the name of the last playlist in place
CompletedKeepingPlaylist(st, n) ==
    [st EXCEPT !.status = "completed",
               !.progress = FracOfInt(100),
               !.message = <<"Successfully migrated", n, "playlists!">>]

\* lines 124-128: the loop of phase 3 is over
Completed(st, n) ==
    [st EXCEPT !.status = "completed",
               !.progress = FracOfInt(100),
               !.message = <<"Successfully migrated", n, "playlists!">>,
               !.currentPlaylist = None]

\* createdPlaylists is not written
CreateIterationCompletedOnly(st, i, n) ==
    [st EXCEPT !.currentPlaylist = PlaylistName(i),
               !.progress = CreateProgress(i, n),
               !.message = <<"Creating Spotify playlist:", PlaylistName(i)>>,
               !.completedPlaylists = i + 1]

\* lines 116-122: iteration i of the creating loop, up to its sleep
CreateIteration(st, i, n) ==
    [st EXCEPT !.currentPlaylist = PlaylistName(i),
               !.progress = CreateProgress(i, n),
               !.message = <<"Creating Spotify playlist:", PlaylistName(i)>>,
               !.completedPlaylists = i + 1,
               !.createdPlaylists = i + 1]

\* lines 112-114: phase 3 begins
EnterCreating(st) ==
    [st EXCEPT !.status = "creating",
               !.message = <<"Creating playlists in Spotify...">>]

\* the counter restarts with every playlist
MatchIterationPerPlaylist(st, p, track_num, matched_count, total_tracks) ==
    [st EXCEPT !.currentPlaylist = PlaylistName(p),
               !.matchedTracks = track_num + 1,
               !.progress = MatchProgress(matched_count, total_tracks),
               !.message = <<"Matching tracks in:", PlaylistName(p),
                             track_num + 1, TrackCount(p)>>]

\* lines 98-110: track track_num of playlist p, up to its sleep
MatchIteration(st, p, track_num, matched_count, total_tracks) ==
    [st EXCEPT !.currentPlaylist = PlaylistName(p),
               !.matchedTracks = matched_count,
               !.progress = MatchProgress(matched_count, total_tracks),
               !.message = <<"Matching tracks in:", PlaylistName(p),
                             track_num + 1, TrackCount(p)>>]

\* lines 90-92: phase 2 begins
EnterMatching(st) ==
    [st EXCEPT !.status = "matching",
               !.message = <<"Matching tracks with Spotify...">>]

\* lines 84-88: iteration i of the extraction loop, up to its sleep
ExtractIteration(st, i, n) ==
    [st EXCEPT !.progress = ExtractProgress(i, n),
               !.currentPlaylist = PlaylistName(i),
               !.message = <<"Extracting:", PlaylistName(i)>>]

\* lines 80-82: phase 1 begins
EnterExtracting(st) ==
    [st EXCEPT !.status = "extracting",
               !.message = <<"Extracting playlists from Anghami...">>]

\* the handler fails to record the failure text
FailedWithoutRecord(st, text) ==
    [st EXCEPT !.status = "error",
               !.message = <<"Migration failed:", text>>]

\* lines 132-135: the except handler
Failed(st, text) ==
    [st EXCEPT !.status = "error",
               !.errors = Append(@, text),
               !.message = <<"Migration failed:", text>>]

(***************************************************************************)
(* Actions of the session orchestrator                                     *)
(***************************************************************************)
\* Positions inside a segment: the task holds the event loop there, so no
\* other task or request handler runs until it reaches its next await.
MidSegment == {"phase2", "phase3", "finish"}

\* the event loop can run a segment of session s's task
Scheduled(s) == \A t \in SessionIds \ {s} : task[t].pc \notin MidSegment

\* the event loop can run a request handler
LoopFree == \A t \in SessionIds : task[t].pc \notin MidSegment

\* routes/migration.py start_migration: register the session, create the task
StartMigration(s, n) ==
    /\ LoopFree
    /\ s \notin DOMAIN migration_sessions
    /\ migration_sessions' =
          [x \in DOMAIN migration_sessions \cup {s} |->
              IF x = s THEN create_migration_status(s, n, SumTrackCounts(n))
                       ELSE migration_sessions[x]]
    /\ task' = [task EXCEPT ![s] = [IdleTask EXCEPT !.pc = "ready", !.n = n]]
    /\ UNCHANGED <<stoppedDuring, notSess>>

\* simulate_migration from its entry: phase 1 begins and runs to the first
\* sleep of the extraction loop, or past the loop when it is empty
TaskStart(s) ==
    /\ Scheduled(s)
    /\ task[s].pc = "ready"
    /\ s \in DOMAIN migration_sessions
    /\ LET n  == task[s].n
           st == EnterExtracting(migration_sessions[s])
       IN IF n > 0
          THEN /\ migration_sessions' =
                    [migration_sessions EXCEPT ![s] = ExtractIteration(st, 0, n)]
               /\ task' = [task EXCEPT ![s].pc = "sleep_extract", ![s].i = 0]
          ELSE /\ migration_sessions' = [migration_sessions EXCEPT ![s] = st]
               /\ task' = [task EXCEPT ![s].pc = "phase2"]
    /\ UNCHANGED <<stoppedDuring, notSess>>

\* resume after `await asyncio.sleep(2)` of the extraction loop
ExtractResume(s) ==
    /\ Scheduled(s)
    /\ task[s].pc = "sleep_extract"
    /\ LET n  == task[s].n
           i  == task[s].i
           st == migration_sessions[s]
       IN IF i + 1 < n
          THEN /\ migration_sessions' =
                    [migration_sessions EXCEPT ![s] = ExtractIteration(st, i + 1, n)]
               /\ task' = [task EXCEPT ![s].i = i + 1]
          ELSE /\ task' = [task EXCEPT ![s].pc = "phase2"]
               /\ UNCHANGED migration_sessions
    /\ UNCHANGED <<stoppedDuring, notSess>>

\* lines 90-110: phase 2 begins and runs to the first sleep of the matching
\* loop, or past the loops when no playlist is selected
MatchBegin(s) ==
    /\ task[s].pc = "phase2"
    /\ LET n  == task[s].n
           st == EnterMatching(migration_sessions[s])
           T  == SumTrackCounts(n)
       IN IF n > 0
          THEN \* every mock playlist has at least 10 tracks
               /\ migration_sessions' =
                    [migration_sessions EXCEPT ![s] = MatchIteration(st, 0, 0, 1, T)]
               /\ task' = [task EXCEPT ![s].pc = "sleep_match", ![s].p = 0,
                                       ![s].track_num = 0, ![s].matched_count = 1,
                                       ![s].total_tracks = T]
          ELSE /\ migration_sessions' = [migration_sessions EXCEPT ![s] = st]
               /\ task' = [task EXCEPT ![s].pc = "phase3", ![s].total_tracks = T]
    /\ UNCHANGED <<stoppedDuring, notSess>>

\* resume after `await asyncio.sleep(0.5)` of the matching loop
MatchResume(s) ==
    /\ Scheduled(s)
    /\ task[s].pc = "sleep_match"
    /\ LET n  == task[s].n
           p  == task[s].p
           k  == task[s].track_num
           m  == task[s].matched_count
           T  == task[s].total_tracks
           st == migration_sessions[s]
       IN IF k + 1 < TrackCount(p)
          THEN /\ migration_sessions' =
                    [migration_sessions EXCEPT
                        ![s] = MatchIteration(st, p, k + 1, m + 1, T)]
               /\ task' = [task EXCEPT ![s].track_num = k + 1,
                                       ![s].matched_count = m + 1]
          ELSE IF p + 1 < n
          THEN /\ migration_sessions' =
                    [migration_sessions EXCEPT
                        ![s] = MatchIteration(st, p + 1, 0, m + 1, T)]
               /\ task' = [task EXCEPT ![s].p = p + 1, ![s].track_num = 0,
                                       ![s].matched_count = m + 1]
          ELSE /\ task' = [task EXCEPT ![s].pc = "phase3"]
               /\ UNCHANGED migration_sessions
    /\ UNCHANGED <<stoppedDuring, notSess>>

\* lines 112-122: phase 3 begins and runs to the first sleep of the creating
\* loop, or past the loop when it is empty
CreateBegin(s) ==
    /\ task[s].pc = "phase3"
    /\ LET n  == task[s].n
           st == EnterCreating(migration_sessions[s])
       IN IF n > 0
          THEN /\ migration_sessions' =
                    [migration_sessions EXCEPT ![s] = CreateIteration(st, 0, n)]
               /\ task' = [task EXCEPT ![s].pc = "sleep_create", ![s].i = 0]
          ELSE /\ migration_sessions' = [migration_sessions EXCEPT ![s] = st]
               /\ task' = [task EXCEPT ![s].pc = "finish"]
    /\ UNCHANGED <<stoppedDuring, notSess>>

\* resume after `await asyncio.sleep(3)` of the creating loop
CreateResume(s) ==
    /\ Scheduled(s)
    /\ task[s].pc = "sleep_create"
    /\ LET n  == task[s].n
           i  == task[s].i
           st == migration_sessions[s]
       IN IF i + 1 < n
          THEN /\ migration_sessions' =
                    [migration_sessions EXCEPT ![s] = CreateIteration(st, i + 1, n)]
               /\ task' = [task EXCEPT ![s].i = i + 1]
          ELSE /\ task' = [task EXCEPT ![s].pc = "finish"]
               /\ UNCHANGED migration_sessions
    /\ UNCHANGED <<stoppedDuring, notSess>>

\* lines 124-130: the task completes
Complete(s) ==
    /\ task[s].pc = "finish"
    /\ migration_sessions' =
          [migration_sessions EXCEPT
              ![s] = Completed(migration_sessions[s], task[s].n)]
    /\ task' = [task EXCEPT ![s].pc = "done"]
    /\ UNCHANGED <<stoppedDuring, notSess>>

\* positions from which the task runs statements of the try block next
InTry == {"ready", "sleep_extract", "phase2", "sleep_match", "phase3",
          "sleep_create", "finish"}

\* a statement of the try block raises an Exception when the task runs on:
\* the except handler of lines 132-135 runs and the task ends
Fail(s) ==
    /\ Scheduled(s)
    /\ task[s].pc \in InTry
    /\ s \in DOMAIN migration_sessions
    /\ migration_sessions' =
          [migration_sessions EXCEPT
              ![s] = Failed(migration_sessions[s], "failure")]
    /\ task' = [task EXCEPT ![s].pc = "failed"]
    /\ UNCHANGED <<stoppedDuring, notSess>>

\* stop also throws the progress made so far away
StoppedAndReset(st) ==
    [st EXCEPT !.status = "stopped",
               !.message = <<"Migration stopped by user">>,
               !.progress = FracOfInt(0),
               !.currentPlaylist = None]

\* lines 46-47: the assignments of stop_migration
Stopped(st) ==
    [st EXCEPT !.status = "stopped",
               !.message = <<"Migration stopped by user">>]

\* what stop_migration(session_id) returns (lines 45, 48, 50)
stop_migration_returns(s) == s \in DOMAIN migration_sessions

\* the stop reaches every session of the registry
StopEverySession(s) ==
    /\ LoopFree
    /\ stop_migration_returns(s)
    /\ task[s].pc # "ready"
    /\ migration_sessions' =
          [x \in DOMAIN migration_sessions |-> Stopped(migration_sessions[x])]
    /\ stoppedDuring' = [stoppedDuring EXCEPT ![s] = @ \cup {task[s].pc}]
    /\ UNCHANGED <<task, notSess>>

\* stop_migration(session_id) on a registered session.  The request carries
\* the id returned by start_migration, so it is handled after the first
\* segment of the task, which the event loop has queued before it.
stop_migration(s) ==
    /\ LoopFree
    /\ stop_migration_returns(s)
    /\ task[s].pc # "ready"
    /\ migration_sessions' =
          [migration_sessions EXCEPT ![s] = Stopped(migration_sessions[s])]
    /\ stoppedDuring' = [stoppedDuring EXCEPT ![s] = @ \cup {task[s].pc}]
    /\ UNCHANGED <<task, notSess>>

\* stop_migration(session_id) with an id that is not in the registry: the
\* test of line 45 fails and line 50 returns False
StopUnknown(s) ==
    /\ LoopFree
    /\ ~stop_migration_returns(s)
    /\ UNCHANGED vars

(***************************************************************************)
(* Playlist creator: data                                                  *)
(***************************************************************************)
\* self.max_batch_size
max_batch_size == 100

\* self.confidence_threshold of the matcher, in hundredths
confidence_threshold == 75

Min(a, b) == IF a <= b THEN a ELSE b

\* MatchResult.has_match
has_match(r) == Len(r.spotify_matches) > 0

\* MatchResult.match_confidence
match_confidence(r) ==
    IF r.best_match # None THEN r.best_match[1].confidence_score ELSE 0

\* f"spotify:track:{result.best_match.spotify_id}"
SpotifyUri(spotify_id) == <<"spotify:track:", spotify_id>>

\* PlaylistCreationResult.success
success(res) == res.spotify_playlist_id # None

\* PlaylistCreationResult(anghami_playlist=...)
NewCreationResult ==
    [ spotify_playlist_id    |-> None,
      spotify_playlist_url   |-> None,
      tracks_added           |-> 0,
      tracks_failed          |-> 0,
      tracks_skipped_review  |-> 0,
      cover_art_uploaded     |-> FALSE,
      error_message          |-> None,
      failed_tracks          |-> << >>,
      review_required_tracks |-> << >> ]

\* The MatchResults match_track hands over (_finalize_match_result): a best
\* match at or above the threshold, a best match below it flagged for
\* review, or no candidate at all, flagged for review.  Confidence is in
\* hundredths.
ResultKinds == {"confident", "low", "none"} \X BOOLEAN

MatchResultOfKind(k, kind) ==
    LET cand(c) == [spotify_id |-> k, confidence_score |-> c]
    IN [ anghami_track        |-> <<"track", k>>,
         spotify_matches      |-> CASE kind[1] = "confident" -> <<cand(90)>>
                                    [] kind[1] = "low"       -> <<cand(50)>>
                                    [] kind[1] = "none"      -> << >>,
         best_match           |-> CASE kind[1] = "confident" -> Some(cand(90))
                                    [] kind[1] = "low"       -> Some(cand(50))
                                    [] kind[1] = "none"      -> None,
         requires_user_review |-> kind[1] # "confident",
         is_arabic_track      |-> kind[2] ]

\* a list of n results whose kinds repeat the given pattern
MatchResultsOf(n, pattern) ==
    [k \in 1..n |-> MatchResultOfKind(k, pattern[((k - 1) % Len(pattern)) + 1])]

Patterns == UNION {[1..len -> ResultKinds] : len \in 1..MaxPattern}

ResultSizes ==
    {0, 1, 2, 3, max_batch_size - 1, max_batch_size, max_batch_size + 1,
     150, 2 * max_batch_size, MaxResults}

(***************************************************************************)
(* Playlist creator: _process_match_results and the batch slices           *)
(***************************************************************************)
\* the entry appended to review_tracks
ReviewEntry(r) ==
    [ anghami_track |-> r.anghami_track,
      spotify_match |-> r.best_match,
      confidence    |-> match_confidence(r),
      is_arabic     |-> r.is_arabic_track,
      reason        |-> "Low confidence match requiring user approval" ]

\* the review check left out: every result that has a match is uploaded
ProcessIgnoringReview(results, skip) ==
    LET ToAdd(r) == has_match(r) /\ r.best_match # None
        adds     == SelectSeq(results, ToAdd)
    IN << [j \in 1..Len(adds) |-> SpotifyUri(adds[j].best_match[1].spotify_id)],
          << >> >>

\* _process_match_results(match_results, skip_user_review):
\* <<track_uris, review_tracks>>
process_match_results(results, skip) ==
    LET ToReview(r) == has_match(r) /\ r.requires_user_review /\ ~skip
        ToAdd(r)    == /\ has_match(r)
                       /\ ~(r.requires_user_review /\ ~skip)
                       /\ r.best_match # None
        adds        == SelectSeq(results, ToAdd)
        revs        == SelectSeq(results, ToReview)
    IN << [j \in 1..Len(adds) |-> SpotifyUri(adds[j].best_match[1].spotify_id)],
          [j \in 1..Len(revs) |-> ReviewEntry(revs[j])] >>

\* the slice taken without its upper end
BatchToEnd(uris, i) == SubSeq(uris, i + 1, Len(uris))

\* batch_uris = track_uris[i:i + self.max_batch_size]
BatchUris(uris, i) == SubSeq(uris, i + 1, Min(i + max_batch_size, Len(uris)))

\* batch_number = (i // self.max_batch_size) + 1
BatchNumber(i) == (i \div max_batch_size) + 1

CreatorInit ==
    /\ \E n \in ResultSizes, pattern \in Patterns :
          match_results = MatchResultsOf(n, pattern)
    /\ skip_user_review \in BOOLEAN
    /\ anghami_playlist \in [cover_art_url : {None, Some("cover")}]
    /\ cpc = "create"
    /\ result = NewCreationResult
    /\ track_uris = << >>
    /\ batch_i = 0
    /\ added_count = 0
    /\ failed_tracks = << >>
    /\ add_calls = << >>
    /\ creator_stats = [playlists_created |-> 0, playlists_failed |-> 0,
                        tracks_added |-> 0, tracks_failed |-> 0,
                        cover_art_uploads |-> 0, api_calls |-> 0]

\* no call in progress
CreatorIdle ==
    /\ match_results = << >>
    /\ skip_user_review = FALSE
    /\ anghami_playlist = [cover_art_url |-> None]
    /\ cpc = "idle"
    /\ result = NewCreationResult
    /\ track_uris = << >>
    /\ batch_i = 0
    /\ added_count = 0
    /\ failed_tracks = << >>
    /\ add_calls = << >>
    /\ creator_stats = [playlists_created |-> 0, playlists_failed |-> 0,
                        tracks_added |-> 0, tracks_failed |-> 0,
                        cover_art_uploads |-> 0, api_calls |-> 0]

(***************************************************************************)
(* Playlist creator: the steps of create_playlist_from_matches             *)
(***************************************************************************)
\* the failure is recorded but the call goes on to its next step
CreateEmptyPlaylistNoReturn(ok) ==
    /\ cpc = "create"
    /\ result' = IF ok
                 THEN [result EXCEPT !.spotify_playlist_id = Some("playlist"),
                                     !.spotify_playlist_url = Some("url")]
                 ELSE [result EXCEPT
                          !.error_message = Some("Failed to create empty playlist")]
    /\ creator_stats' = IF ok THEN [creator_stats EXCEPT !.api_calls = @ + 1]
                        ELSE creator_stats
    /\ cpc' = "process"
    /\ UNCHANGED <<anghami_playlist, match_results, skip_user_review, track_uris,
                   batch_i, added_count, failed_tracks, add_calls, notCreator>>

\* Step 1, lines 205-213: _create_empty_playlist returns the playlist data,
\* or None when a request raised
CreateEmptyPlaylist(ok) ==
    /\ cpc = "create"
    /\ IF ok
       THEN /\ result' = [result EXCEPT !.spotify_playlist_id = Some("playlist"),
                                        !.spotify_playlist_url = Some("url")]
            /\ creator_stats' = [creator_stats EXCEPT !.api_calls = @ + 1]
            /\ cpc' = "process"
       ELSE /\ result' = [result EXCEPT
                             !.error_message = Some("Failed to create empty playlist")]
            /\ cpc' = "done"
            /\ UNCHANGED creator_stats
    /\ UNCHANGED <<anghami_playlist, match_results, skip_user_review, track_uris,
                   batch_i, added_count, failed_tracks, add_calls, notCreator>>

\* Step 2, lines 216-218, and the test of line 221
ProcessMatchResults ==
    /\ cpc = "process"
    /\ LET pr == process_match_results(match_results, skip_user_review)
       IN /\ track_uris' = pr[1]
          /\ result' = [result EXCEPT !.tracks_skipped_review = Len(pr[2]),
                                      !.review_required_tracks = pr[2]]
          /\ cpc' = IF Len(pr[1]) > 0 THEN "batch" ELSE "cover"
    /\ batch_i' = 0
    /\ added_count' = 0
    /\ failed_tracks' = << >>
    /\ UNCHANGED <<anghami_playlist, match_results, skip_user_review, add_calls,
                   creator_stats, notCreator>>

\* only the first URI of a failed batch is recorded
FailedBatchFirstOnly(batch, batch_number) ==
    [j \in 1..Min(1, Len(batch)) |->
        [uri |-> batch[j], error |-> "request failed", batch |-> batch_number]]

\* the records appended to failed_tracks when a batch raises
FailedBatch(batch, batch_number) ==
    [j \in 1..Len(batch) |->
        [uri |-> batch[j], error |-> "request failed", batch |-> batch_number]]

\* Step 3, lines 350-383: one iteration of the batch loop; the request is
\* acknowledged or raises
AddBatch(ok) ==
    /\ cpc = "batch"
    /\ batch_i < Len(track_uris)
    /\ LET batch == BatchUris(track_uris, batch_i)
       IN /\ add_calls' = Append(add_calls, batch)
          /\ IF ok
             THEN /\ added_count' = added_count + Len(batch)
                  /\ creator_stats' = [creator_stats EXCEPT !.api_calls = @ + 1]
                  /\ UNCHANGED failed_tracks
             ELSE /\ failed_tracks' =
                        failed_tracks \o FailedBatch(batch, BatchNumber(batch_i))
                  /\ UNCHANGED <<added_count, creator_stats>>
    /\ batch_i' = batch_i + max_batch_size
    /\ UNCHANGED <<anghami_playlist, match_results, skip_user_review, cpc, result,
                   track_uris, notCreator>>

\* lines 385 and 225-227: the loop is over, the counts go into the result
AddTracksReturn ==
    /\ cpc = "batch"
    /\ batch_i >= Len(track_uris)
    /\ result' = [result EXCEPT !.tracks_added = added_count,
                                !.tracks_failed = Len(failed_tracks),
                                !.failed_tracks = failed_tracks]
    /\ cpc' = "cover"
    /\ UNCHANGED <<anghami_playlist, match_results, skip_user_review, track_uris,
                   batch_i, added_count, failed_tracks, add_calls, creator_stats,
                   notCreator>>

\* a cover-art failure that throws the whole result away
CoverFailureClearsResult(cover_success) ==
    /\ cpc = "cover"
    /\ anghami_playlist.cover_art_url = None => ~cover_success
    /\ LET uploaded == anghami_playlist.cover_art_url # None /\ cover_success
       IN /\ result' = IF uploaded
                       THEN [result EXCEPT !.cover_art_uploaded = TRUE]
                       ELSE NewCreationResult
          /\ creator_stats' =
                [creator_stats EXCEPT
                    !.playlists_created = @ + 1,
                    !.tracks_added = @ + result.tracks_added,
                    !.tracks_failed = @ + result.tracks_failed,
                    !.cover_art_uploads = IF uploaded THEN @ + 1 ELSE @,
                    !.api_calls = IF uploaded THEN @ + 1 ELSE @]
    /\ cpc' = "done"
    /\ UNCHANGED <<anghami_playlist, match_results, skip_user_review, track_uris,
                   batch_i, added_count, failed_tracks, add_calls, notCreator>>

\* Step 4 and the statistics, lines 234-253: _upload_cover_art returns True,
\* or False when download, processing or upload failed
UploadCoverAndReturn(cover_success) ==
    /\ cpc = "cover"
    /\ anghami_playlist.cover_art_url = None => ~cover_success
    /\ LET uploaded == anghami_playlist.cover_art_url # None /\ cover_success
       IN /\ result' = [result EXCEPT !.cover_art_uploaded = uploaded]
          /\ creator_stats' =
                [creator_stats EXCEPT
                    !.playlists_created = @ + 1,
                    !.tracks_added = @ + result.tracks_added,
                    !.tracks_failed = @ + result.tracks_failed,
                    !.cover_art_uploads = IF uploaded THEN @ + 1 ELSE @,
                    !.api_calls = IF uploaded THEN @ + 1 ELSE @]
    /\ cpc' = "done"
    /\ UNCHANGED <<anghami_playlist, match_results, skip_user_review, track_uris,
                   batch_i, added_count, failed_tracks, add_calls, notCreator>>

NextCreator ==
    \/ \E ok \in BOOLEAN : CreateEmptyPlaylist(ok)
    \/ ProcessMatchResults
    \/ \E ok \in BOOLEAN : AddBatch(ok)
    \/ AddTracksReturn
    \/ \E cover_success \in BOOLEAN : UploadCoverAndReturn(cover_success)

(***************************************************************************)
(* Playlist creator: _upload_cover_art and CoverArtProcessor               *)
(***************************************************************************)
\* process_cover_art(image_data, max_size=256000)
max_size == 256000

\* sizes in bytes a JPEG encoding of the resized image may have
EncodedSizes ==
    {1, max_size - 1, max_size, max_size + 1, 2 * max_size, 3 * max_size}

\* no call in progress
CoverIdle ==
    /\ cover_image = [quality85 |-> 0, quality70 |-> 0]
    /\ cover_pc = "idle"
    /\ cover_data = None
    /\ cover_uploads = << >>

\* the encoding of lower quality is not the larger one
CoverInit ==
    /\ cover_image \in [quality85 : EncodedSizes, quality70 : EncodedSizes]
    /\ cover_image.quality70 <= cover_image.quality85
    /\ cover_pc = "start"
    /\ cover_data = None
    /\ cover_uploads = << >>

\* lines 139-149: the size of processed_data
processed_size(image) ==
    IF image.quality85 > max_size THEN image.quality70 ELSE image.quality85

\* lines 393-395: download_cover_art returns the image, or None
DownloadCoverArt(ok) ==
    /\ cover_pc = "start"
    /\ cover_pc' = IF ok THEN "downloaded" ELSE "returned_false"
    /\ UNCHANGED <<cover_image, cover_data, cover_uploads, notCover>>

\* lines 398-400: process_cover_art returns the base64 text of the encoded
\* image, or None when the image cannot be opened or saved
ProcessCoverArt(ok) ==
    /\ cover_pc = "downloaded"
    /\ IF ok
       THEN /\ cover_data' = Some(processed_size(cover_image))
            /\ cover_pc' = "processed"
       ELSE /\ cover_pc' = "returned_false"
            /\ UNCHANGED cover_data
    /\ UNCHANGED <<cover_image, cover_uploads, notCover>>

\* lines 403-419: the PUT .../images request is acknowledged, or raises
UploadImage(ok) ==
    /\ cover_pc = "processed"
    /\ IF ok
       THEN /\ cover_uploads' = Append(cover_uploads, cover_data[1])
            /\ cover_pc' = "returned_true"
       ELSE /\ cover_pc' = "returned_false"
            /\ UNCHANGED cover_uploads
    /\ UNCHANGED <<cover_image, cover_data, notCover>>

NextCover ==
    \/ \E ok \in BOOLEAN : DownloadCoverArt(ok)
    \/ \E ok \in BOOLEAN : ProcessCoverArt(ok)
    \/ \E ok \in BOOLEAN : UploadImage(ok)

(***************************************************************************)
(* The progress channel: websocket_endpoint(websocket, session_id)         *)
(***************************************************************************)
\* no consumer has connected
WsIdle ==
    /\ websocket_connections = {}
    /\ ws = [s \in SessionIds |-> "none"]
    /\ ws_last = [s \in SessionIds |-> None]

\* the loop also ends while the playlists are being created
ChannelDoneWhenCreating(sessions, s) ==
    /\ s \in DOMAIN sessions
    /\ sessions[s].status \in {"completed", "error", "stopped", "creating"}

\* lines 31-33: the test that ends the loop
ChannelDone(sessions, s) ==
    /\ s \in DOMAIN sessions
    /\ sessions[s].status \in {"completed", "error", "stopped"}

\* lines 20-21: a consumer connects for id s; the connection is accepted and
\* registered
WsConnect(s) ==
    /\ LoopFree
    /\ ws[s] = "none"
    /\ websocket_connections' = websocket_connections \cup {s}
    /\ ws' = [ws EXCEPT ![s] = "loop"]
    /\ UNCHANGED <<ws_last, sessVars, notWs>>

\* lines 26-29 from the top of the loop: the status of a registered session
\* is sent, and the handler waits for the send; for an id that is not in the
\* registry nothing is sent, the test of line 32 fails and the handler sleeps
\* (lines 32-35) to come back to the top of the loop
WsSend(s) ==
    /\ LoopFree
    /\ ws[s] = "loop"
    /\ ws' = [ws EXCEPT ![s] = IF s \in DOMAIN migration_sessions
                                THEN "sent" ELSE "loop"]
    /\ ws_last' = IF s \in DOMAIN migration_sessions
                  THEN [ws_last EXCEPT ![s] = Some(migration_sessions[s])]
                  ELSE ws_last
    /\ UNCHANGED <<websocket_connections, sessVars, notWs>>

\* lines 31-41 after the send: the loop ends and the connection is
\* unregistered when the status is terminal, else the handler sleeps for a
\* second and comes back to the top of the loop
WsCheck(s) ==
    /\ LoopFree
    /\ ws[s] = "sent"
    /\ IF ChannelDone(migration_sessions, s)
       THEN /\ ws' = [ws EXCEPT ![s] = "closed"]
            /\ websocket_connections' = websocket_connections \ {s}
       ELSE /\ ws' = [ws EXCEPT ![s] = "loop"]
            /\ UNCHANGED websocket_connections
    /\ UNCHANGED <<ws_last, sessVars, notWs>>

\* lines 38-41: the consumer goes away; the pending send or sleep raises
\* WebSocketDisconnect and the connection is unregistered
WsDisconnect(s) ==
    /\ LoopFree
    /\ ws[s] \in {"loop", "sent"}
    /\ ws' = [ws EXCEPT ![s] = "disconnected"]
    /\ websocket_connections' = websocket_connections \ {s}
    /\ UNCHANGED <<ws_last, sessVars, notWs>>

(***************************************************************************)
(* SpotifyAuth.make_authenticated_request                                  *)
(***************************************************************************)
\* max_retries = 3
max_retries == 3

\* Answers to one HTTP request: a response that passes raise_for_status, a
\* 429 with its Retry-After header (absent: the default 1 applies), a
\* response whose status raises HTTPError, a request that raises a
\* RequestException itself.
HttpAnswers ==
    { [kind |-> "ok", retry_after |-> None],
      [kind |-> "429", retry_after |-> None],
      [kind |-> "429", retry_after |-> Some(0)],
      [kind |-> "429", retry_after |-> Some(5)],
      [kind |-> "http_error", retry_after |-> None],
      [kind |-> "request_exception", retry_after |-> None] }

\* int(response.headers.get('Retry-After', 1))
RetryAfter(answer) ==
    IF answer.retry_after = None THEN 1 ELSE answer.retry_after[1]

\* a backoff that does not grow
ConstantBackoff(k) == 1

\* 2 ** attempt
Backoff(k) == 2 ^ k

\* a call about to start
RequestInit ==
    /\ attempt = 0
    /\ rpc = "start"
    /\ http_log = << >>
    /\ slept = << >>
    /\ req_returned = None

\* no call
RequestIdle ==
    /\ attempt = 0
    /\ rpc = "idle"
    /\ http_log = << >>
    /\ slept = << >>
    /\ req_returned = None

\* lines 162-164: the headers; get_auth_headers raises when there is no
\* access token
RequestBegin(authenticated) ==
    /\ rpc = "start"
    /\ rpc' = IF authenticated THEN "request" ELSE "raised"
    /\ UNCHANGED <<attempt, http_log, slept, req_returned, notRequest>>

\* lines 167-186: one round of the loop, and the raise of line 186 when a
\* 429 ends the last round
RequestAttempt(answer) ==
    /\ rpc = "request"
    /\ attempt < max_retries
    /\ http_log' = Append(http_log, answer)
    /\ CASE answer.kind = "ok" ->
              /\ req_returned' = Some(answer)
              /\ rpc' = "returned"
              /\ UNCHANGED <<attempt, slept>>
         [] answer.kind = "429" ->
              /\ slept' = Append(slept, RetryAfter(answer))
              /\ attempt' = attempt + 1
              /\ rpc' = IF attempt + 1 < max_retries THEN "request" ELSE "raised"
              /\ UNCHANGED req_returned
         [] OTHER ->
              IF attempt = max_retries - 1
              THEN /\ rpc' = "raised"
                   /\ UNCHANGED <<attempt, slept, req_returned>>
              ELSE /\ slept' = Append(slept, Backoff(attempt))
                   /\ attempt' = attempt + 1
                   /\ rpc' = "request"
                   /\ UNCHANGED req_returned
    /\ UNCHANGED notRequest

NextRequest ==
    \/ \E authenticated \in BOOLEAN : RequestBegin(authenticated)
    \/ \E answer \in HttpAnswers : RequestAttempt(answer)

(***************************************************************************)
(* Playlist creator: migrate_playlists                                     *)
(***************************************************************************)
\* MigrationReport(session_id, start_time), lines 61-80
NewMigrationReport ==
    [ end_time                      |-> None,
      playlists_processed           |-> 0,
      playlists_created             |-> 0,
      playlists_failed              |-> 0,
      total_tracks_processed        |-> 0,
      total_tracks_added            |-> 0,
      total_tracks_failed           |-> 0,
      total_tracks_requiring_review |-> 0,
      arabic_tracks_processed       |-> 0,
      arabic_tracks_added           |-> 0,
      cover_art_uploads             |-> 0,
      playlist_results              |-> << >> ]

\* PlaylistCreationResult.total_processed
total_processed(res) ==
    res.tracks_added + res.tracks_failed + res.tracks_skipped_review

\* the report counts and keeps only the playlists that were created
UpdateReportCreatedOnly(rep, creation_result, results) ==
    IF success(creation_result)
    THEN [rep EXCEPT !.playlist_results = Append(@, creation_result),
                     !.playlists_processed = @ + 1,
                     !.playlists_created = @ + 1]
    ELSE rep

\* lines 444-470: the report after one create_playlist_from_matches call
UpdateReport(rep, creation_result, results) ==
    LET arabic_count ==
            Cardinality({k \in 1..Len(results) : results[k].is_arabic_track})
        arabic_added ==
            Cardinality({k \in 1..Len(results) :
                            /\ results[k].is_arabic_track
                            /\ has_match(results[k])
                            /\ ~results[k].requires_user_review})
    IN [rep EXCEPT
          !.playlist_results = Append(@, creation_result),
          !.playlists_processed = @ + 1,
          !.playlists_created = IF success(creation_result) THEN @ + 1 ELSE @,
          !.playlists_failed = IF success(creation_result) THEN @ ELSE @ + 1,
          !.total_tracks_processed = @ + total_processed(creation_result),
          !.total_tracks_added = @ + creation_result.tracks_added,
          !.total_tracks_failed = @ + creation_result.tracks_failed,
          !.total_tracks_requiring_review =
              @ + creation_result.tracks_skipped_review,
          !.arabic_tracks_processed = @ + arabic_count,
          !.arabic_tracks_added = @ + arabic_added,
          !.cover_art_uploads =
              IF creation_result.cover_art_uploaded THEN @ + 1 ELSE @]

\* sample (cover art, match results) pairs: an empty playlist, a short one
\* with a result to review, and one that needs two batches
PlaylistSamples ==
    { <<None, << >>>>,
      <<Some("cover"),
        MatchResultsOf(2, << <<"confident", TRUE>>, <<"low", FALSE>> >>)>>,
      <<Some("cover"),
        MatchResultsOf(max_batch_size + 1, << <<"confident", FALSE>> >>)>> }

\* the k-th input pair made of a sample
InputPair(k, sample) ==
    [ playlist      |-> [name |-> <<"playlist", k>>, cover_art_url |-> sample[1]],
      match_results |-> sample[2] ]

MigrateInit ==
    /\ \E n \in 0..MaxPlaylists :
          \E samples \in [1..n -> PlaylistSamples] :
             playlists_with_matches = [k \in 1..n |-> InputPair(k, samples[k])]
    /\ report = NewMigrationReport
    /\ mig_pc = "loop"
    /\ mig_i = 0

\* no migrate_playlists call
MigrateIdle ==
    /\ playlists_with_matches = << >>
    /\ report = NewMigrationReport
    /\ mig_pc = "idle"
    /\ mig_i = 0

\* lines 436-442: the next pair is taken and create_playlist_from_matches is
\* awaited with it
MigrateCall ==
    /\ mig_pc = "loop"
    /\ mig_i < Len(playlists_with_matches)
    /\ anghami_playlist' = playlists_with_matches[mig_i + 1].playlist
    /\ match_results' = playlists_with_matches[mig_i + 1].match_results
    /\ cpc' = "create"
    /\ result' = NewCreationResult
    /\ track_uris' = << >>
    /\ batch_i' = 0
    /\ added_count' = 0
    /\ failed_tracks' = << >>
    /\ add_calls' = << >>
    /\ mig_pc' = "call"
    /\ UNCHANGED <<skip_user_review, creator_stats, playlists_with_matches,
                   report, mig_i, notMigrate>>

\* lines 444-474: the call has returned its result; the report is updated
\* and the loop goes on after its pause
MigrateRecord ==
    /\ mig_pc = "call"
    /\ cpc = "done"
    /\ report' = UpdateReport(report,
                              result @@ [anghami_playlist |-> anghami_playlist],
                              match_results)
    /\ mig_i' = mig_i + 1
    /\ mig_pc' = "loop"
    /\ cpc' = "idle"
    /\ UNCHANGED <<anghami_playlist, match_results, skip_user_review, result,
                   track_uris, batch_i, added_count, failed_tracks, add_calls,
                   creator_stats, playlists_with_matches, notMigrate>>

\* lines 476-482: the loop is over; the report is closed and returned
MigrateReturn ==
    /\ mig_pc = "loop"
    /\ mig_i >= Len(playlists_with_matches)
    /\ report' = [report EXCEPT !.end_time = Some("end")]
    /\ mig_pc' = "returned"
    /\ UNCHANGED <<creatorVars, playlists_with_matches, mig_i, notMigrate>>

NextMigrate ==
    \/ MigrateCall
    \/ NextCreator
    \/ MigrateRecord
    \/ MigrateReturn

(***************************************************************************)
(* Text: a string is a sequence of characters; a character is named by a   *)
(* one-element string or, outside ASCII, by its Unicode name.              *)
(***************************************************************************)
\* characters of the Arabic block, '؀' <= char <= 'ۿ'
ArabicChars == {"AIN", "LAM", "YEH", "SHEEN", "MEEM"}

\* lower-case / upper-case pairs
CasedPairs ==
    { <<"a", "A">>, <<"b", "B">>, <<"c", "C">>, <<"d", "D">>, <<"e", "E">>,
      <<"f", "F">>, <<"g", "G">>, <<"h", "H">>, <<"i", "I">>, <<"j", "J">>,
      <<"k", "K">>, <<"l", "L">>, <<"m", "M">>, <<"n", "N">>, <<"o", "O">>,
      <<"p", "P">>, <<"q", "Q">>, <<"r", "R">>, <<"s", "S">>, <<"t", "T">>,
      <<"u", "U">>, <<"v", "V">>, <<"w", "W">>, <<"x", "X">>, <<"y", "Y">>,
      <<"z", "Z">>, <<"E_ACUTE", "CAPITAL_E_ACUTE">> }

LowerChars == {pr[1] : pr \in CasedPairs}

UpperChars == {pr[2] : pr \in CasedPairs}

\* str.lower() and str.upper() on one character
LowerChar(c) ==
    IF c \in UpperChars THEN (CHOOSE pr \in CasedPairs : pr[2] = c)[1] ELSE c

UpperChar(c) ==
    IF c \in LowerChars THEN (CHOOSE pr \in CasedPairs : pr[1] = c)[2] ELSE c

\* str.lower()
Lower(text) == [k \in 1..Len(text) |-> LowerChar(text[k])]

RECURSIVE TitleFrom(_, _, _)
TitleFrom(text, k, previous_is_cased) ==
    IF k > Len(text) THEN << >>
    ELSE LET c == text[k]
         IN IF c \in LowerChars \cup UpperChars
            THEN <<IF previous_is_cased THEN LowerChar(c) ELSE UpperChar(c)>>
                     \o TitleFrom(text, k + 1, TRUE)
            ELSE <<c>> \o TitleFrom(text, k + 1, FALSE)

\* str.title()
Title(text) == TitleFrom(text, 1, FALSE)

\* \s of the regular expressions, and what str.strip() removes
IsSpace(c) == c = " "

\* unicodedata.category(char) == 'Mn'
IsMark(c) == c = "COMBINING_ACUTE"

\* \w of the regular expressions (letters, digits, underscore)
IsWord(c) ==
    c \in LowerChars \cup UpperChars \cup ArabicChars \cup {"3", "7", "_"}

\* the characters the class [^\w\s\-\'\.] leaves in place
KeptBySearchClean(c) == IsWord(c) \/ IsSpace(c) \/ c \in {"-", "'", "."}

RECURSIVE LStrip(_)
LStrip(text) ==
    IF text # << >> /\ IsSpace(Head(text)) THEN LStrip(Tail(text)) ELSE text

RECURSIVE RStrip(_)
RStrip(text) ==
    IF text # << >> /\ IsSpace(text[Len(text)])
    THEN RStrip(SubSeq(text, 1, Len(text) - 1))
    ELSE text

\* str.strip()
Strip(text) == RStrip(LStrip(text))

RECURSIVE NFD(_)
\* unicodedata.normalize('NFD', text): precomposed letters fall apart
NFD(text) ==
    IF text = << >> THEN << >>
    ELSE LET c == Head(text)
         IN (CASE c = "E_ACUTE"         -> <<"e", "COMBINING_ACUTE">>
               [] c = "CAPITAL_E_ACUTE" -> <<"E", "COMBINING_ACUTE">>
               [] OTHER                 -> <<c>>) \o NFD(Tail(text))

IsNotMark(c) == ~IsMark(c)

\* TextNormalizer.normalize_unicode
normalize_unicode(text) ==
    IF text = << >> THEN << >> ELSE Strip(SelectSeq(NFD(text), IsNotMark))

RECURSIVE CollapseSpaces(_)
\* re.sub(r'\s+', ' ', text)
CollapseSpaces(text) ==
    IF text = << >> THEN << >>
    ELSE IF IsSpace(Head(text))
         THEN <<" ">> \o CollapseSpaces(LStrip(text))
         ELSE <<Head(text)>> \o CollapseSpaces(Tail(text))

\* re.sub(r'[^\w\s\-\'\.]', ' ', text)
BlankSpecials(text) ==
    [k \in 1..Len(text) |-> IF KeptBySearchClean(text[k]) THEN text[k] ELSE " "]

\* TextNormalizer.clean_search_text
clean_search_text(text) ==
    IF text = << >> THEN << >>
    ELSE Strip(CollapseSpaces(BlankSpecials(normalize_unicode(text))))

\* the first position k >= from with text[k] = c, 0 if there is none
IndexOfFrom(text, c, from) ==
    IF \E k \in from..Len(text) : text[k] = c
    THEN CHOOSE k \in from..Len(text) :
            text[k] = c /\ \A j \in from..(k - 1) : text[j] # c
    ELSE 0

\* the lower-case word kw stands in text at position k, re.IGNORECASE
HasAt(text, k, kw) ==
    /\ k >= 1
    /\ k + Len(kw) - 1 <= Len(text)
    /\ Lower(SubSeq(text, k, k + Len(kw) - 1)) = kw

\* the position after kw\.? (or after kw, where the pattern has no \.?)
\* for kw standing at position k
AfterWord(text, k, pattern) ==
    LET e == k + Len(pattern.kw)
    IN IF pattern.dot /\ e <= Len(text) /\ text[e] = "." THEN e + 1 ELSE e

\* the patterns of extract_main_title, in the order they are applied:
\*   credit    open kw \.? \s+ [^close]+ close
\*   tail      \s+ kw \.? \s+ .+ $
\*   labelled  \( [^)]* kw [^)]* \)
MainTitlePatterns ==
    << [kind |-> "credit", open |-> "(", close |-> ")",
        kw |-> <<"f", "e", "a", "t">>, dot |-> TRUE],
       [kind |-> "credit", open |-> "[", close |-> "]",
        kw |-> <<"f", "e", "a", "t">>, dot |-> TRUE],
       [kind |-> "credit", open |-> "(", close |-> ")",
        kw |-> <<"f", "e", "a", "t", "u", "r", "i", "n", "g">>, dot |-> FALSE],
       [kind |-> "tail", open |-> "", close |-> "",
        kw |-> <<"f", "e", "a", "t">>, dot |-> TRUE],
       [kind |-> "tail", open |-> "", close |-> "",
        kw |-> <<"f", "e", "a", "t", "u", "r", "i", "n", "g">>, dot |-> FALSE],
       [kind |-> "tail", open |-> "", close |-> "",
        kw |-> <<"f", "t">>, dot |-> TRUE],
       [kind |-> "tail", open |-> "", close |-> "",
        kw |-> <<"w", "i", "t", "h">>, dot |-> FALSE],
       [kind |-> "labelled", open |-> "(", close |-> ")",
        kw |-> <<"r", "e", "m", "i", "x">>, dot |-> FALSE],
       [kind |-> "labelled", open |-> "(", close |-> ")",
        kw |-> <<"v", "e", "r", "s", "i", "o", "n">>, dot |-> FALSE],
       [kind |-> "labelled", open |-> "(", close |-> ")",
        kw |-> <<"e", "d", "i", "t">>, dot |-> FALSE] >>

\* the last position of the match of a bracketed pattern that starts at i,
\* 0 if none starts there
EndOfMatch(text, i, pattern) ==
    IF text[i] # pattern.open THEN 0
    ELSE IF pattern.kind = "credit"
    THEN LET p == AfterWord(text, i + 1, pattern)
         IN IF /\ HasAt(text, i + 1, pattern.kw)
               /\ p + 1 <= Len(text)
               /\ IsSpace(text[p])
               /\ text[p + 1] # pattern.close
            THEN IndexOfFrom(text, pattern.close, p + 1)
            ELSE 0
    ELSE LET q == IndexOfFrom(text, pattern.close, i + 1)
         IN IF q > 0 /\ \E k \in (i + 1)..(q - Len(pattern.kw)) :
                           HasAt(text, k, pattern.kw)
            THEN q ELSE 0

RECURSIVE RemoveBracketed(_, _, _)
\* re.sub(pattern, '', text) of a bracketed pattern, from position i on
RemoveBracketed(text, i, pattern) ==
    IF i > Len(text) THEN << >>
    ELSE IF EndOfMatch(text, i, pattern) > 0
         THEN RemoveBracketed(text, EndOfMatch(text, i, pattern) + 1, pattern)
         ELSE <<text[i]>> \o RemoveBracketed(text, i + 1, pattern)

\* a match of a tail pattern starts at the white space at i
TailFrom(text, i, pattern) ==
    /\ IsSpace(text[i])
    /\ \E j \in (i + 1)..Len(text) :
          /\ \A k \in i..(j - 1) : IsSpace(text[k])
          /\ HasAt(text, j, pattern.kw)
          /\ AfterWord(text, j, pattern) + 1 <= Len(text)
          /\ IsSpace(text[AfterWord(text, j, pattern)])

\* re.sub(pattern, '', text) of a tail pattern: the text before the first match
RemoveTail(text, pattern) ==
    IF \E i \in 1..Len(text) : TailFrom(text, i, pattern)
    THEN SubSeq(text, 1, (CHOOSE i \in 1..Len(text) :
                             /\ TailFrom(text, i, pattern)
                             /\ \A h \in 1..(i - 1) : ~TailFrom(text, h, pattern)) - 1)
    ELSE text

RECURSIVE ApplyPatterns(_, _)
\* for pattern in patterns: cleaned_title = re.sub(pattern, '', cleaned_title)
ApplyPatterns(text, patterns) ==
    IF patterns = << >> THEN text
    ELSE ApplyPatterns(IF Head(patterns).kind = "tail"
                       THEN RemoveTail(text, Head(patterns))
                       ELSE RemoveBracketed(text, 1, Head(patterns)),
                       Tail(patterns))

\* TextNormalizer.extract_main_title
extract_main_title(title) ==
    IF title = << >> THEN << >> ELSE Strip(ApplyPatterns(title, MainTitlePatterns))

(***************************************************************************)
(* difflib.SequenceMatcher(None, a, b).ratio() for strings under 200       *)
(* characters (no junk, no popularity heuristic): 2 * M / T as <<num, den>>*)
(***************************************************************************)
RECURSIVE CommonPrefix(_, _, _, _, _, _)
\* length of the longest common run of a[i..ahi] and b[j..bhi] from i and j
CommonPrefix(a, b, i, j, ahi, bhi) ==
    IF i > ahi \/ j > bhi \/ a[i] # b[j] THEN 0
    ELSE 1 + CommonPrefix(a, b, i + 1, j + 1, ahi, bhi)

\* find_longest_match(alo, ahi, blo, bhi): <<i, j, size>>, the longest
\* block, the earliest in a and then the earliest in b among the longest
find_longest_match(a, b, alo, ahi, blo, bhi) ==
    LET starts == (alo..ahi) \X (blo..bhi)
        size(st) == CommonPrefix(a, b, st[1], st[2], ahi, bhi)
        best == IF starts = {} THEN 0
                ELSE CHOOSE n \in 0..(ahi - alo + 1) :
                        /\ \E st \in starts : size(st) = n
                        /\ \A st \in starts : size(st) <= n
    IN IF best = 0 THEN <<alo, blo, 0>>
       ELSE LET longest == {st \in starts : size(st) = best}
                first == CHOOSE st \in longest :
                            \A o \in longest :
                               st[1] < o[1] \/ (st[1] = o[1] /\ st[2] <= o[2])
            IN <<first[1], first[2], best>>

RECURSIVE MatchingTotal(_, _, _, _, _, _)
\* the sum of the sizes of get_matching_blocks() within a[alo..ahi], b[blo..bhi]
MatchingTotal(a, b, alo, ahi, blo, bhi) ==
    IF alo > ahi \/ blo > bhi THEN 0
    ELSE LET m == find_longest_match(a, b, alo, ahi, blo, bhi)
         IN IF m[3] = 0 THEN 0
            ELSE m[3]
                 + MatchingTotal(a, b, alo, m[1] - 1, blo, m[2] - 1)
                 + MatchingTotal(a, b, m[1] + m[3], ahi, m[2] + m[3], bhi)

\* SequenceMatcher(None, a, b).ratio()
Ratio(a, b) ==
    IF Len(a) + Len(b) = 0 THEN <<1, 1>>
    ELSE <<2 * MatchingTotal(a, b, 1, Len(a), 1, Len(b)), Len(a) + Len(b)>>

\* TextNormalizer.similarity_score
similarity_score(text1, text2) ==
    IF text1 = << >> \/ text2 = << >> THEN <<0, 1>>
    ELSE LET norm1 == clean_search_text(Lower(text1))
             norm2 == clean_search_text(Lower(text2))
         IN IF norm1 = norm2 THEN <<1, 1>> ELSE Ratio(norm1, norm2)

\* max of two rationals
FracMax(a, b) == IF FracLeq(a, b) THEN b ELSE a

(***************************************************************************)
(* Rational arithmetic for the confidence scores                           *)
(***************************************************************************)
RECURSIVE GCD(_, _)
GCD(m, n) == IF n = 0 THEN m ELSE GCD(n, m % n)

\* the fraction in lowest terms
Reduce(f) == LET g == GCD(f[1], f[2]) IN IF g = 0 THEN f ELSE <<f[1] \div g, f[2] \div g>>

FracAdd(a, b) == Reduce(<<a[1] * b[2] + b[1] * a[2], a[2] * b[2]>>)

FracMul(a, b) == Reduce(<<a[1] * b[1], a[2] * b[2]>>)

FracLess(a, b) == a[1] * b[2] < b[1] * a[2]

RECURSIVE FracSum(_)
\* sum(score_components)
FracSum(components) ==
    IF components = << >> THEN <<0, 1>>
    ELSE FracAdd(Head(components), FracSum(Tail(components)))

RECURSIVE MaxOfFracs(_, _)
\* the running max(best_score, score) over a set of scores, from `start`
MaxOfFracs(scores, start) ==
    IF scores = {} THEN start
    ELSE LET f == CHOOSE x \in scores : TRUE
         IN MaxOfFracs(scores \ {f}, FracMax(start, f))

(***************************************************************************)
(* ArabicTransliterator                                                    *)
(***************************************************************************)
\* the threshold met counts as exceeded
is_arabic_text_inclusive(text) ==
    /\ text # << >>
    /\ 10 * Cardinality({k \in 1..Len(text) : text[k] \in ArabicChars}) >= 3 * Len(text)

\* is_arabic_text: arabic_chars > len(text) * 0.3
is_arabic_text(text) ==
    /\ text # << >>
    /\ 10 * Cardinality({k \in 1..Len(text) : text[k] \in ArabicChars}) > 3 * Len(text)

\* ARABIC_TRANSLITERATIONS, the names spelled with the model's characters
ARABIC_TRANSLITERATIONS ==
    ( <<"AIN", "LAM", "YEH">> :>
         {<<"A", "l", "i">>, <<"A", "l", "y">>, <<"A", "l", "e", "e">>} )

\* PHONETIC_PATTERNS, the letters among the model's characters
PHONETIC_PATTERNS ==
    ( "SHEEN" :> {<<"s", "h">>, <<"c", "h">>} ) @@
    ( "AIN"   :> {<<"a">>, <<"e">>, <<"3">>} ) @@
    ( "YEH"   :> {<<"y">>, <<"i">>, <<"e">>} )

RECURSIVE Replace(_, _, _)
\* str.replace(old_char, new)
Replace(text, old_char, new) ==
    IF text = << >> THEN << >>
    ELSE (IF Head(text) = old_char THEN new ELSE <<Head(text)>>)
            \o Replace(Tail(text), old_char, new)

\* _generate_phonetic_variants, as a set
generate_phonetic_variants(arabic_text) ==
    { Title(Replace(arabic_text, pv[1], pv[2])) :
        pv \in { pv \in UNION { {c} \X PHONETIC_PATTERNS[c] : c \in DOMAIN PHONETIC_PATTERNS } :
                   /\ \E k \in 1..Len(arabic_text) : arabic_text[k] = pv[1]
                   /\ Replace(arabic_text, pv[1], pv[2]) # arabic_text
                   /\ Len(Replace(arabic_text, pv[1], pv[2])) > 1 } }

\* get_transliteration_variants, as the set the list is made from
get_transliteration_variants(arabic_name) ==
    LET table == IF arabic_name \in DOMAIN ARABIC_TRANSLITERATIONS
                 THEN ARABIC_TRANSLITERATIONS[arabic_name] ELSE {}
    IN { v \in table \cup generate_phonetic_variants(arabic_name) : Strip(v) # << >> }

\* _phonetic_similarity
phonetic_similarity(arabic_text, english_text) ==
    IF arabic_text = << >> \/ english_text = << >> THEN <<0, 1>>
    ELSE MaxOfFracs({ Reduce(Ratio(Lower(v), Lower(english_text))) :
                        v \in get_transliteration_variants(arabic_text) }, <<0, 1>>)

(***************************************************************************)
(* SpotifyTrackMatcher._calculate_confidence                               *)
(***************************************************************************)
\* AnghamiTrack.primary_artist
primary_artist(track) == IF track.artists # << >> THEN track.artists[1] ELSE << >>

\* is_arabic of match_track and of _calculate_confidence
IsArabicTrack(track) ==
    \/ is_arabic_text(track.title)
    \/ \E k \in 1..Len(track.artists) : is_arabic_text(track.artists[k])

Discography == <<"d", "i", "s", "c", "o", "g", "r", "a", "p", "h", "y">>

\* "discography" in reason, a reason being <<fixed text, inserted name>>
MentionsDiscography(reason) ==
    \/ reason[1] = "Found via artist discography search"
    \/ \E k \in 1..(Len(reason[2]) - Len(Discography) + 1) :
          SubSeq(reason[2], k, k + Len(Discography) - 1) = Discography

\* title similarity, lines 886-904
TitleSimilarity(track, spotify_title, is_arabic) ==
    IF is_arabic
    THEN FracMax(Reduce(similarity_score(track.title, spotify_title)),
                 MaxOfFracs({ Reduce(similarity_score(v, spotify_title)) :
                                v \in get_transliteration_variants(track.title) },
                            <<0, 1>>))
    ELSE Reduce(similarity_score(track.title, spotify_title))

\* similarity of one artist pair, lines 926-936
ArtistPairSimilarity(anghami_artist, spotify_artist, is_arabic) ==
    IF is_arabic /\ is_arabic_text(anghami_artist)
    THEN FracMax(phonetic_similarity(anghami_artist, spotify_artist),
                 Reduce(similarity_score(anghami_artist, spotify_artist)))
    ELSE Reduce(similarity_score(anghami_artist, spotify_artist))

RECURSIVE BestArtistFrom(_, _, _, _, _, _)
\* the double loop of lines 924-940 from pair (i, j) on:
\* <<best_artist_similarity, best_artist_match>>
BestArtistFrom(track, spotify_artists, is_arabic, i, j, best) ==
    IF i > Len(track.artists) THEN best
    ELSE IF j > Len(spotify_artists)
    THEN BestArtistFrom(track, spotify_artists, is_arabic, i + 1, 1, best)
    ELSE LET similarity ==
                ArtistPairSimilarity(track.artists[i], spotify_artists[j], is_arabic)
         IN BestArtistFrom(track, spotify_artists, is_arabic, i, j + 1,
                IF FracLess(best[1], similarity)
                THEN <<similarity, spotify_artists[j]>> ELSE best)

\* the grade appended for a similarity, lines 912-917 and 944-949
Grade(similarity, what, name) ==
    IF FracLess(<<9, 10>>, similarity)
    THEN << <<"Excellent " \o what, name>> >>
    ELSE IF FracLess(<<7, 10>>, similarity)
    THEN << <<"Good " \o what, name>> >>
    ELSE IF FracLess(<<5, 10>>, similarity)
    THEN << <<"Partial " \o what, name>> >>
    ELSE << >>

\* no bonus for an exact match
NoExactBonus(similarity) == << >>

\* lines 964-970: 0.05 for a similarity of exactly 1.0
ExactBonus(similarity) == IF similarity = <<1, 1>> THEN << <<5, 100>> >> ELSE << >>

\* the sum returned as it is
Unclamped(score) == score

\* min(sum(score_components), 1.0)
ClampScore(score) == IF FracLeq(score, <<1, 1>>) THEN score ELSE <<1, 1>>

\* _calculate_confidence, lines 906-979, given the title similarity of lines
\* 886-904 (title_similarity; regular is the similarity of the titles as they
\* are) and the best artist pair of lines 920-940 (best = <<similarity,
\* name>>): the weights, reasons and bonuses, the sum and its clamp
ConfidenceFrom(is_arabic, title_similarity, regular, best) ==
    LET title_weight  == IF is_arabic THEN <<4, 10>> ELSE <<5, 10>>
        artist_weight == IF is_arabic THEN <<5, 10>> ELSE <<4, 10>>
        best_artist_similarity == best[1]
        reasons1 ==
            (IF is_arabic /\ FracLess(regular, title_similarity)
             THEN << <<"Arabic transliteration title match", << >> >> >> ELSE << >>)
            \o Grade(title_similarity, "title match", << >>)
            \o Grade(best_artist_similarity, "artist match: ", best[2])
        artist_bonus == is_arabic /\ FracLess(<<6, 10>>, best_artist_similarity)
        reasons2 ==
            reasons1 \o (IF artist_bonus
                         THEN << <<"Arabic artist successfully identified", << >> >> >>
                         ELSE << >>)
        discography_bonus ==
            is_arabic /\ \E k \in 1..Len(reasons2) : MentionsDiscography(reasons2[k])
        reasons3 ==
            reasons2
            \o (IF discography_bonus
                THEN << <<"Found via artist discography search", << >> >> >> ELSE << >>)
            \o (IF ExactBonus(title_similarity) # << >>
                THEN << <<"Exact title match", << >> >> >> ELSE << >>)
            \o (IF ExactBonus(best_artist_similarity) # << >>
                THEN << <<"Exact artist match", << >> >> >> ELSE << >>)
        score_components ==
            << FracMul(title_similarity, title_weight),
               FracMul(best_artist_similarity, artist_weight) >>
            \o (IF artist_bonus THEN << <<1, 10>> >> ELSE << >>)
            \o (IF discography_bonus THEN << <<1, 10>> >> ELSE << >>)
            \o ExactBonus(title_similarity)
            \o ExactBonus(best_artist_similarity)
        final_score == ClampScore(FracSum(score_components))
    IN << final_score,
          reasons3 \o (IF is_arabic /\ FracLess(<<5, 10>>, final_score)
                       THEN << <<"Arabic track with reasonable confidence", << >> >> >>
                       ELSE << >>) >>

\* _calculate_confidence: <<final_score, reasons>>
calculate_confidence(track, spotify_title, spotify_artists) ==
    ConfidenceFrom(IsArabicTrack(track),
                   TitleSimilarity(track, spotify_title, IsArabicTrack(track)),
                   Reduce(similarity_score(track.title, spotify_title)),
                   BestArtistFrom(track, spotify_artists, IsArabicTrack(track), 1, 1,
                                  << <<0, 1>>, << >> >>))

(***************************************************************************)
(* SpotifySearchCache and SpotifyTrackMatcher._search_spotify              *)
(* Times are in milliseconds.                                              *)
(***************************************************************************)
\* self.cache_duration = timedelta(hours=24)
cache_duration == 86400000

\* self.request_delay = 0.1
request_delay == 100

\* _get_cache_key(query, "track"): f"{search_type}:{query.lower().strip()}"
get_cache_key(query) == <<"t", "r", "a", "c", "k", ":">> \o Strip(Lower(query))

\* the expiry test one tick late: an entry is still served when its age
\* equals the duration
CacheGetLate(c, key, t) ==
    IF key \notin DOMAIN c THEN <<c, None>>
    ELSE IF t - c[key].timestamp <= cache_duration
         THEN <<c, Some(c[key].data)>>
         ELSE <<[k \in DOMAIN c \ {key} |-> c[k]], None>>

\* SpotifySearchCache.get at time t: <<the cache afterwards, the value returned>>;
\* an expired entry is deleted
CacheGet(c, key, t) ==
    IF key \notin DOMAIN c THEN <<c, None>>
    ELSE IF t - c[key].timestamp < cache_duration
         THEN <<c, Some(c[key].data)>>
         ELSE <<[k \in DOMAIN c \ {key} |-> c[k]], None>>

\* SpotifySearchCache.set at time t
CacheSet(c, key, data, t) ==
    [k \in DOMAIN c \cup {key} |->
        IF k = key THEN [data |-> data, timestamp |-> t] ELSE c[k]]

\* what one _search_spotify call does: the matcher's fields afterwards, the
\* increments of the counters, the tracks returned, and whether a request
\* went out and was answered
SearchOutcome(c, t, last, hits, calls, tracks, outbound, answered) ==
    [cache |-> c, now |-> t, last_request_time |-> last, cache_hits |-> hits,
     api_calls |-> calls, tracks |-> tracks, outbound |-> outbound,
     answered |-> answered]

\* the time the request is made: the rate limiter sleeps
\* request_delay - elapsed when elapsed < request_delay
SendTime(t, last) == IF t - last < request_delay THEN last + request_delay ELSE t

\* lines 808-833: the request made at time sent; response is None when the
\* request raises, Some(items) when the catalog answers
SearchRequest(c, key, response, sent) ==
    IF response = None
    THEN SearchOutcome(c, sent, sent, 0, 0, << >>, TRUE, FALSE)
    ELSE SearchOutcome(CacheSet(c, key, response[1], sent), sent, sent, 0, 1,
                       response[1], TRUE, TRUE)

\* lines 795-806: got is what cache.get returned; `if cached_result:` takes
\* a cached value that is an empty list for a miss
SearchAfterGet(got, t, last, key, response) ==
    IF got[2] # None /\ got[2][1] # << >>
    THEN SearchOutcome(got[1], t, last, 1, 0, got[2][1], FALSE, FALSE)
    ELSE SearchRequest(got[1], key, response, SendTime(t, last))

\* _search_spotify(query, strategy) called at time t
search_spotify(c, t, last, query, response) ==
    IF Strip(query) = << >>
    THEN SearchOutcome(c, t, last, 0, 0, << >>, FALSE, FALSE)
    ELSE SearchAfterGet(CacheGet(c, get_cache_key(query), t), t, last,
                        get_cache_key(query), response)

\* the entry of request_log for a request of some kind sent at time t
Request(kind, t) == [kind |-> kind, time |-> t]

\* the request a _search_spotify call sent, if it sent one (line 809)
SearchRequests(out) ==
    IF out.outbound THEN <<Request("track_search", out.now)>> ELSE << >>

\* the entry of search_log for a call made at time t
LogEntry(query, t, out) ==
    [query |-> query, at |-> t, outbound |-> out.outbound,
     answered |-> out.answered, tracks |-> out.tracks]

\* self.stats after a _search_spotify call
StatsAfterSearch(stats, out) ==
    [stats EXCEPT !.cache_hits = @ + out.cache_hits, !.api_calls = @ + out.api_calls]

\* a catalog track as the search endpoint delivers it
CatalogTrack(id, name, artists) == [id |-> id, name |-> name, artists |-> artists]

\* self.stats of a new matcher
NewMatcherStats ==
    [total_searches |-> 0, cache_hits |-> 0, api_calls |-> 0,
     successful_matches |-> 0, high_confidence_matches |-> 0,
     failed_searches |-> 0, arabic_tracks_processed |-> 0,
     arabic_tracks_matched |-> 0, arabic_high_confidence |-> 0,
     arabic_discography_searches |-> 0, tracks_requiring_review |-> 0]

\* a new SpotifyTrackMatcher; the clock stands late enough for the first
\* request not to be delayed
NewMatcher ==
    /\ cache = << >>
    /\ now = request_delay
    /\ last_request_time = 0
    /\ matcher_stats = NewMatcherStats
    /\ search_log = << >>
    /\ request_log = << >>

\* the locals of a match_track call that has not run yet
NoLocals ==
    [start_time |-> 0, variants_left |-> {}, tried |-> 0, identified |-> << >>,
     artists |-> << >>, artist_k |-> 1, search_strategies |-> << >>,
     strategy_i |-> 1]

\* no match_track call in progress
NoCall ==
    /\ m_track = [title |-> << >>, artists |-> << >>]
    /\ mpc = "idle"
    /\ m_result = None
    /\ m_local = NoLocals

MatcherIdle == NewMatcher /\ NoCall

(***************************************************************************)
(* _search_spotify called directly, at chosen times                        *)
(***************************************************************************)
SearchQueries == { <<"a">>, <<"A", " ">>, <<"b">>, <<" ">> }

SearchResponses ==
    { None, Some(<< >>), Some(<<CatalogTrack("id1", <<"a">>, <<<<"b">>>>)>>) }

\* the time between two calls
Pauses == {request_delay \div 2, cache_duration - request_delay, cache_duration}

\* await self._search_spotify(query, strategy), `pause` after the call before
SearchCall(query, response, pause) ==
    /\ Len(search_log) < MaxSearches
    /\ LET out == search_spotify(cache, now + pause, last_request_time, query, response)
       IN /\ cache' = out.cache
          /\ now' = out.now
          /\ last_request_time' = out.last_request_time
          /\ matcher_stats' = StatsAfterSearch(matcher_stats, out)
          /\ search_log' = Append(search_log, LogEntry(query, now + pause, out))
          /\ request_log' = request_log \o SearchRequests(out)
    /\ UNCHANGED <<callVars, notMatcher>>

NextSearch ==
    \E query \in SearchQueries, response \in SearchResponses, pause \in Pauses :
        SearchCall(query, response, pause)

(***************************************************************************)
(* ArabicTransliterator.is_arabic_text called on sample texts              *)
(***************************************************************************)
\* the texts: every sequence of an Arabic and a Latin letter up to MaxTextLen
ScriptTexts == UNION { [1..n -> {"AIN", "a"}] : n \in 0..MaxTextLen }

\* no call in progress
TextIdle == script_text = << >> /\ script_out = None

TextInit == script_text \in ScriptTexts /\ script_out = None

\* is_arabic_text(text)
IsArabicTextCall ==
    /\ script_out = None
    /\ script_out' = Some(is_arabic_text(script_text))
    /\ UNCHANGED <<script_text, notText>>

NextText == IsArabicTextCall

(***************************************************************************)
(* SpotifySearchCache.get and SpotifySearchCache.set called directly       *)
(***************************************************************************)
\* no call was made on the cache itself
CacheCallIdle == cache_log = << >>

CacheQueries == { <<"a">>, <<"A", " ">>, <<"b">> }

CacheData == { << >>, <<CatalogTrack("id1", <<"a">>, <<<<"b">>>>)>> }

\* the time between two calls: the least tick, and what then is left of the
\* cache's duration
CachePauses == {1, cache_duration - 1}

\* an entry of cache_log
CacheCallEntry(op, query, data, t, returned) ==
    [op |-> op, query |-> query, data |-> data, at |-> t, returned |-> returned]

\* self.cache.get(query), `pause` after the call before
CacheGetCall(query, pause) ==
    /\ Len(cache_log) < MaxCacheCalls
    /\ LET got == CacheGet(cache, get_cache_key(query), now + pause)
       IN /\ cache' = got[1]
          /\ cache_log' = Append(cache_log,
                                 CacheCallEntry("get", query, None, now + pause, got[2]))
    /\ now' = now + pause
    /\ UNCHANGED notCache

\* self.cache.set(query, data), `pause` after the call before
CacheSetCall(query, data, pause) ==
    /\ Len(cache_log) < MaxCacheCalls
    /\ cache' = CacheSet(cache, get_cache_key(query), data, now + pause)
    /\ cache_log' = Append(cache_log,
                           CacheCallEntry("set", query, Some(data), now + pause, None))
    /\ now' = now + pause
    /\ UNCHANGED notCache

NextCache ==
    \/ \E query \in CacheQueries, pause \in CachePauses : CacheGetCall(query, pause)
    \/ \E query \in CacheQueries, data \in CacheData, pause \in CachePauses :
          CacheSetCall(query, data, pause)

(***************************************************************************)
(* SpotifyTrackMatcher.match_track                                         *)
(***************************************************************************)
\* "{text}" in double quotes
Quoted(text) == <<"\"">> \o text \o <<"\"">>

\* track:"{text}"
TrackField(text) == <<"t", "r", "a", "c", "k", ":">> \o Quoted(text)

\* artist:"{text}"
ArtistField(text) == <<"a", "r", "t", "i", "s", "t", ":">> \o Quoted(text)

\* the broad query moved to the front of the list
StrategiesBroadFirst(title, artist, clean_title, clean_artist, main_title) ==
    << <<"broad_search", clean_title \o <<" ">> \o clean_artist>>,
       <<"exact_fields", TrackField(title) \o <<" ">> \o ArtistField(artist)>>,
       <<"exact_quoted", Quoted(title) \o <<" ">> \o Quoted(artist)>> >>

\* the strategies of _generate_search_strategies, lines 753-787, as
\* <<strategy_name, query>>
StrategiesFrom(title, artist, clean_title, clean_artist, main_title) ==
    << <<"exact_fields", TrackField(title) \o <<" ">> \o ArtistField(artist)>>,
       <<"exact_quoted", Quoted(title) \o <<" ">> \o Quoted(artist)>> >>
    \o (IF clean_title # << >> /\ clean_artist # << >>
        THEN << <<"normalized_fields",
                  TrackField(clean_title) \o <<" ">> \o ArtistField(clean_artist)>> >>
        ELSE << >>)
    \o (IF main_title # title /\ main_title # << >>
        THEN << <<"main_title",
                  TrackField(main_title) \o <<" ">> \o ArtistField(artist)>> >>
        ELSE << >>)
    \o << <<"broad_search", clean_title \o <<" ">> \o clean_artist>> >>
    \o (IF Len(clean_title) < 3
        THEN << <<"artist_only", ArtistField(clean_artist)>> >> ELSE << >>)
    \o (IF Len(clean_title) > 3
        THEN << <<"title_only", TrackField(clean_title)>> >> ELSE << >>)

\* _generate_search_strategies
generate_search_strategies(track) ==
    IF track.title = << >> \/ primary_artist(track) = << >> THEN << >>
    ELSE StrategiesFrom(track.title, primary_artist(track),
                        clean_search_text(track.title),
                        clean_search_text(primary_artist(track)),
                        extract_main_title(track.title))

RECURSIVE InsertByScore(_, _)
\* pair = <<x, score>> put behind every pair whose score is not lower
InsertByScore(sorted, pair) ==
    IF sorted = << >> THEN <<pair>>
    ELSE IF FracLess(Head(sorted)[2], pair[2]) THEN <<pair>> \o sorted
    ELSE <<Head(sorted)>> \o InsertByScore(Tail(sorted), pair)

RECURSIVE SortedByScore(_)
\* list.sort(key=score, reverse=True): stable, highest first
SortedByScore(pairs) ==
    IF pairs = << >> THEN << >>
    ELSE InsertByScore(SortedByScore(SubSeq(pairs, 1, Len(pairs) - 1)),
                       pairs[Len(pairs)])

FirstN(seq, n) == SubSeq(seq, 1, Min(n, Len(seq)))

\* SpotifyTrackMatch(...) of _score_matches; scored = <<confidence, reasons>>
SpotifyTrackMatch(item, scored, strategy) ==
    [spotify_id |-> item.id, title |-> item.name, artists |-> item.artists,
     confidence_score |-> scored[1], match_strategy |-> strategy,
     match_reasons |-> scored[2]]

\* a match with its sort key
WithScore(match) == <<match, match.confidence_score>>

\* the matches of _score_matches before the sort, each with its sort key
ScoredPairs(track, spotify_tracks, strategy) ==
    [k \in 1..Len(spotify_tracks) |->
        WithScore(SpotifyTrackMatch(spotify_tracks[k],
                                    calculate_confidence(track, spotify_tracks[k].name,
                                                         spotify_tracks[k].artists),
                                    strategy))]

Firsts(pairs) == [k \in 1..Len(pairs) |-> pairs[k][1]]

\* _score_matches
score_matches(track, spotify_tracks, strategy) ==
    Firsts(SortedByScore(ScoredPairs(track, spotify_tracks, strategy)))

\* max(matches, key=lambda x: x.confidence_score): the first of the highest
BestOf(matches) ==
    matches[CHOOSE k \in 1..Len(matches) :
               /\ \A j \in 1..Len(matches) :
                     FracLeq(matches[j].confidence_score, matches[k].confidence_score)
               /\ \A j \in 1..(k - 1) :
                     FracLess(matches[j].confidence_score, matches[k].confidence_score)]

\* MatchResult(anghami_track=anghami_track)
NewMatchResult(track) ==
    [anghami_track |-> track, spotify_matches |-> << >>, best_match |-> None,
     search_queries_tried |-> << >>, total_search_time_ms |-> 0,
     error_message |-> None, is_arabic_track |-> FALSE,
     requires_user_review |-> FALSE, arabic_artist_variants_tried |-> << >>,
     discography_search_attempted |-> FALSE]

\* the best match always counts as confident
NeverLowConfidence(confidence) == FALSE

\* the else branch of `if confidence >= self.confidence_threshold`
LowConfidence(confidence) == FracLess(confidence, <<confidence_threshold, 100>>)

\* _finalize_match_result: the result afterwards
finalize_match_result(res) ==
    IF res.spotify_matches # << >>
    THEN [res EXCEPT
            !.best_match = Some(BestOf(res.spotify_matches)),
            !.requires_user_review =
                IF LowConfidence(BestOf(res.spotify_matches).confidence_score)
                THEN TRUE ELSE @]
    ELSE [res EXCEPT !.requires_user_review = TRUE]

Count(b) == IF b THEN 1 ELSE 0

\* _finalize_match_result: self.stats afterwards, given the finalized result
StatsAfterFinalize(stats, final) ==
    [stats EXCEPT
       !.arabic_tracks_processed = @ + Count(final.is_arabic_track),
       !.arabic_discography_searches =
           @ + Count(final.is_arabic_track /\ final.discography_search_attempted),
       !.successful_matches = @ + Count(final.spotify_matches # << >>),
       !.arabic_tracks_matched =
           @ + Count(final.spotify_matches # << >> /\ final.is_arabic_track),
       !.high_confidence_matches =
           @ + Count(final.spotify_matches # << >> /\ ~final.requires_user_review),
       !.arabic_high_confidence =
           @ + Count(/\ final.spotify_matches # << >>
                     /\ ~final.requires_user_review
                     /\ final.is_arabic_track),
       !.tracks_requiring_review = @ + Count(final.requires_user_review)]

AboveHalf(pair) == FracLess(<<1, 2>>, pair[2])

\* _identify_arabic_artist, per variant: the (artist_name, similarity) pairs
\* appended for the artists a search delivered; a failed search delivers none
IdentifiedFrom(arabic_artist_name, response) ==
    IF response = None THEN << >>
    ELSE SelectSeq([k \in 1..Len(response[1]) |->
                      << response[1][k].name,
                         phonetic_similarity(arabic_artist_name, response[1][k].name) >>],
                   AboveHalf)

RECURSIVE FirstOccurrences(_)
\* the keys of unique_artists in insertion order
FirstOccurrences(names) ==
    IF names = << >> THEN << >>
    ELSE LET front == FirstOccurrences(SubSeq(names, 1, Len(names) - 1))
             last == names[Len(names)]
         IN IF \E k \in 1..Len(front) : front[k] = last THEN front
            ELSE Append(front, last)

\* unique_artists: each name with its highest score
UniqueArtists(identified) ==
    [k \in 1..Len(FirstOccurrences(Firsts(identified))) |->
        << FirstOccurrences(Firsts(identified))[k],
           MaxOfFracs({ identified[j][2] : j \in
                          { j \in 1..Len(identified) :
                              identified[j][1] = FirstOccurrences(Firsts(identified))[k] } },
                      <<0, 1>>) >>]

\* what _identify_arabic_artist returns: sorted_artists[:5]
sorted_artists(identified) == FirstN(SortedByScore(UniqueArtists(identified)), 5)

AboveTwoFifths(pair) == FracLess(<<4, 10>>, pair[2])

\* _search_artist_discography: the album tracks whose title resembles
\* track_title; outcome is None when a request fails or finds nothing
DiscographyMatches(track_title, outcome) ==
    IF outcome = None THEN << >>
    ELSE Firsts(SelectSeq([k \in 1..Len(outcome[1]) |->
                             << outcome[1][k],
                                similarity_score(track_title, outcome[1][k].name) >>],
                          AboveTwoFifths))

(***************************************************************************)
(* One match_track call; the catalog answers from sample responses         *)
(***************************************************************************)
MatchTracks ==
    { [title |-> <<"a", "b">>, artists |-> <<<<"c", "d">>>>],
      [title |-> <<"a", "b", "c", "d">>, artists |-> <<<<"a", "b">>, <<"c", "d">>>>],
      [title |-> <<"a", "b", " ", "f", "t", " ", "x">>, artists |-> <<<<"c", "d">>>>],
      [title |-> <<"a", "b">>, artists |-> << >>],
      [title |-> << >>, artists |-> <<<<"c", "d">>>>],
      [title |-> <<"SHEEN", "MEEM">>, artists |-> <<<<"SHEEN", "MEEM">>>>],
      [title |-> <<"SHEEN", "MEEM">>, artists |-> <<<<"c", "d">>>>] }

\* _search_artist_discography called at time t: the requests it sends.  The
\* artist search (line 556), the albums request (line 565) and the tracks
\* request of the album (line 586) follow one another without a pause; the
\* sleep of line 613 comes after the album.  When the artist search fails or
\* finds nothing (outcome None) it is the only request.
DiscographyRequests(outcome, t) ==
    IF outcome = None
    THEN <<Request("artist_search", t)>>
    ELSE <<Request("artist_search", t), Request("artist_albums", t),
           Request("album_tracks", t)>>

\* catalog tracks: the track itself, its title by somebody else, another song
ExactItem(track) == CatalogTrack("exact", track.title, <<primary_artist(track)>>)

SameTitleItem(track) == CatalogTrack("title", track.title, <<<<"q">>>>)

OtherItem == CatalogTrack("other", <<"z", "z">>, <<<<"q">>>>)

\* answers to a track search: None when the request raises
TrackResponses(track) ==
    { None, Some(<< >>), Some(<<SameTitleItem(track)>>),
      Some(<<OtherItem, ExactItem(track)>>) }

\* answers to an artist search
ArtistResponses ==
    { None, Some(<< >>),
      Some(<<[id |-> "artist1", name |-> <<"s", "h", "MEEM">>]>>),
      Some(<<[id |-> "artist2", name |-> <<"q">>],
             [id |-> "artist3", name |-> <<"C", "h", "MEEM">>]>>) }

\* the tracks of the album a discography search walks through
DiscographyOutcomes(track) ==
    { None, Some(<< >>), Some(<<ExactItem(track)>>),
      Some(<<SameTitleItem(track), OtherItem>>) }

MatchCallInit ==
    /\ m_track \in MatchTracks
    /\ mpc = "start"
    /\ m_result = None
    /\ m_local = NoLocals

\* match_track down to the first await: the result object, the Arabic
\* detection, and _identify_arabic_artist's variants; search_strategies, a
\* function of the track alone, is computed here for _match_general_track
MatchTrackBegin ==
    /\ mpc = "start"
    /\ m_result' = [NewMatchResult(m_track) EXCEPT
                       !.is_arabic_track = IsArabicTrack(m_track)]
    /\ m_local' =
          [NoLocals EXCEPT
             !.start_time = now,
             !.variants_left =
                 IF IsArabicTrack(m_track)
                 THEN get_transliteration_variants(primary_artist(m_track))
                 ELSE {},
             !.search_strategies = generate_search_strategies(m_track)]
    /\ mpc' = IF /\ IsArabicTrack(m_track)
                 /\ get_transliteration_variants(primary_artist(m_track)) # {}
              THEN "identify" ELSE "general"
    /\ UNCHANGED <<m_track, searchVars, notMatcher>>

\* one round of the loop `for variant in variants[:8]` of
\* _identify_arabic_artist (the list comes from a set, in any order), and
\* after the last round its return into _match_arabic_track
SearchArtistVariant(variant, response) ==
    /\ mpc = "identify"
    /\ variant \in m_local.variants_left
    /\ LET identified == m_local.identified
                           \o IdentifiedFrom(primary_artist(m_track), response)
           finished == m_local.variants_left = {variant} \/ m_local.tried + 1 = 8
           artists == FirstN(sorted_artists(identified), 3)
       IN /\ m_local' = [m_local EXCEPT
                           !.identified = identified,
                           !.variants_left = @ \ {variant},
                           !.tried = @ + 1,
                           !.artists = IF finished THEN artists ELSE @]
          /\ mpc' = IF ~finished THEN "identify"
                    ELSE IF artists = << >> THEN "general" ELSE "discography"
          /\ m_result' = IF finished /\ artists # << >>
                         THEN [m_result EXCEPT
                                 !.arabic_artist_variants_tried = Firsts(artists)]
                         ELSE m_result
    /\ request_log' = Append(request_log, Request("artist_search", now))
    /\ now' = now + 100
    /\ UNCHANGED <<m_track, cache, last_request_time, matcher_stats, search_log,
                   notMatcher>>

\* the discography loop never ends the matching early
SearchDiscographyNoStop(outcome) ==
    /\ mpc = "discography"
    /\ LET strategy == <<"discography_", m_local.artists[m_local.artist_k][1]>>
           scored == score_matches(m_track, DiscographyMatches(m_track.title, outcome),
                                   strategy)
       IN m_result' = IF scored # << >>
                      THEN [m_result EXCEPT
                              !.discography_search_attempted = TRUE,
                              !.spotify_matches = @ \o scored]
                      ELSE m_result
    /\ mpc' = IF m_local.artist_k < Len(m_local.artists)
              THEN "discography" ELSE "general"
    /\ m_local' = [m_local EXCEPT !.artist_k = @ + 1]
    /\ request_log' = request_log \o DiscographyRequests(outcome, now)
    /\ now' = IF outcome = None THEN now ELSE now + 100
    /\ UNCHANGED <<m_track, cache, last_request_time, matcher_stats, search_log,
                   notMatcher>>

\* one round of the loop over identified_artists[:3] of _match_arabic_track
SearchDiscography(outcome) ==
    /\ mpc = "discography"
    /\ LET strategy == <<"discography_", m_local.artists[m_local.artist_k][1]>>
           scored == score_matches(m_track, DiscographyMatches(m_track.title, outcome),
                                   strategy)
       IN /\ m_result' = IF scored # << >>
                         THEN [m_result EXCEPT
                                 !.discography_search_attempted = TRUE,
                                 !.spotify_matches = @ \o scored]
                         ELSE m_result
          /\ mpc' = IF scored # << >>
                       /\ FracLeq(<<6, 10>>, BestOf(scored).confidence_score)
                    THEN "finalize"
                    ELSE IF m_local.artist_k < Len(m_local.artists)
                    THEN "discography" ELSE "general"
    /\ m_local' = [m_local EXCEPT !.artist_k = @ + 1]
    /\ request_log' = request_log \o DiscographyRequests(outcome, now)
    /\ now' = IF outcome = None THEN now ELSE now + 100
    /\ UNCHANGED <<m_track, cache, last_request_time, matcher_stats, search_log,
                   notMatcher>>

\* one round of the loop over the strategies of _match_general_track
TryStrategy(response) ==
    /\ mpc = "general"
    /\ m_local.strategy_i <= Len(m_local.search_strategies)
    /\ LET strategy == m_local.search_strategies[m_local.strategy_i]
           out == search_spotify(cache, now, last_request_time, strategy[2], response)
           scored == score_matches(m_track, out.tracks, <<strategy[1], << >> >>)
           confident ==
               /\ scored # << >>
               /\ FracLeq(<<confidence_threshold, 100>>, BestOf(scored).confidence_score)
       IN /\ cache' = out.cache
          /\ last_request_time' = out.last_request_time
          /\ matcher_stats' = StatsAfterSearch(matcher_stats, out)
          /\ search_log' = Append(search_log, LogEntry(strategy[2], now, out))
          /\ request_log' = request_log \o SearchRequests(out)
          /\ now' = IF confident THEN out.now ELSE out.now + 100
          /\ m_result' = [m_result EXCEPT
                            !.search_queries_tried = Append(@, strategy),
                            !.spotify_matches = @ \o scored]
          /\ mpc' = IF confident THEN "finalize" ELSE "general"
          /\ m_local' = [m_local EXCEPT
                            !.strategy_i = IF confident THEN @ ELSE @ + 1]
    /\ UNCHANGED <<m_track, notMatcher>>

\* the end of match_track: _finalize_match_result, the timing, the return
FinalizeAndReturn ==
    /\ \/ mpc = "finalize"
       \/ /\ mpc = "general"
          /\ m_local.strategy_i > Len(m_local.search_strategies)
    /\ m_result' = [finalize_match_result(m_result) EXCEPT
                       !.total_search_time_ms = now - m_local.start_time]
    /\ matcher_stats' =
          [StatsAfterFinalize(matcher_stats, finalize_match_result(m_result)) EXCEPT
              !.total_searches = @ + 1]
    /\ mpc' = "returned"
    /\ UNCHANGED <<m_track, m_local, cache, now, last_request_time, search_log,
                   request_log,
                   notMatcher>>

NextMatcher ==
    \/ MatchTrackBegin
    \/ \E variant \in m_local.variants_left, response \in ArtistResponses :
          SearchArtistVariant(variant, response)
    \/ \E outcome \in DiscographyOutcomes(m_track) : SearchDiscography(outcome)
    \/ \E response \in TrackResponses(m_track) : TryStrategy(response)
    \/ FinalizeAndReturn

(***************************************************************************)
(* Track matcher: _search_artist_discography, album by album               *)
(***************************************************************************)
\* 'limit': 20 of the albums request
album_limit == 20

\* for album in albums[:10]
albums_searched == 10

\* the catalogs: up to MaxAlbums albums of one other song each, one of them
\* (or none) holding the song looked for instead
DiscCatalogs ==
    { [k \in 1..n |->
          IF k = h THEN <<CatalogTrack("hit", <<"a", "b">>, <<<<"c", "d">>>>)>>
                   ELSE <<OtherItem>>] :
      n \in 0..MaxAlbums, h \in 0..MaxAlbums }

\* no call in progress
DiscIdle ==
    /\ disc_albums = << >>
    /\ disc_title = << >>
    /\ disc_pc = "idle"
    /\ disc_requested = << >>
    /\ disc_matches = << >>

DiscInit ==
    /\ disc_albums \in DiscCatalogs
    /\ disc_title = <<"a", "b">>
    /\ disc_pc = "start"
    /\ disc_requested = << >>
    /\ disc_matches = << >>

\* albums_data.get('items', []): the catalog delivers at most `limit` albums
AlbumsDelivered(albums) == FirstN(albums, album_limit)

\* the albums the loop of line 582 runs over
AlbumsWalked(albums) == FirstN(AlbumsDelivered(albums), albums_searched)

\* lines 554-576: the artist search and the albums request; an artist that
\* is not found ends the call, a request that raises ends it in the handler
DiscographyBegin(outcome) ==
    /\ disc_pc = "start"
    /\ disc_pc' = outcome
    /\ UNCHANGED <<disc_albums, disc_title, disc_requested, disc_matches, notDisc>>

\* lines 582-613: one round of the loop over the albums; the tracks request
\* is answered, or raises and the handler of line 617 returns []
DiscographyAlbum(ok) ==
    /\ disc_pc = "albums"
    /\ Len(disc_requested) < Len(AlbumsWalked(disc_albums))
    /\ LET k == Len(disc_requested) + 1
       IN /\ disc_requested' = Append(disc_requested, k)
          /\ IF ok
             THEN /\ disc_matches' =
                        disc_matches \o DiscographyMatches(disc_title, Some(disc_albums[k]))
                  /\ UNCHANGED disc_pc
             ELSE /\ disc_matches' = << >>
                  /\ disc_pc' = "caught"
    /\ UNCHANGED <<disc_albums, disc_title, notDisc>>

\* line 615: return matching_tracks
DiscographyReturn ==
    /\ disc_pc = "albums"
    /\ Len(disc_requested) >= Len(AlbumsWalked(disc_albums))
    /\ disc_pc' = "returned"
    /\ UNCHANGED <<disc_albums, disc_title, disc_requested, disc_matches, notDisc>>

NextDisc ==
    \/ \E outcome \in {"albums", "no_artist", "caught"} : DiscographyBegin(outcome)
    \/ \E ok \in BOOLEAN : DiscographyAlbum(ok)
    \/ DiscographyReturn

(***************************************************************************)
(* Track matcher: match_playlist                                           *)
(***************************************************************************)
\* sample tracks of a playlist: a Latin-script one and an Arabic one
PlaylistTracks ==
    { [title |-> <<"a", "b">>, artists |-> <<<<"c", "d">>>>],
      [title |-> <<"SHEEN", "MEEM">>, artists |-> <<<<"SHEEN", "MEEM">>>>] }

\* answers of the catalog during a playlist: nothing found, the track found
PlaylistTrackResponses(track) == { Some(<< >>), Some(<<OtherItem, ExactItem(track)>>) }

PlaylistArtistResponses ==
    { Some(<< >>), Some(<<[id |-> "artist1", name |-> <<"s", "h", "MEEM">>]>>) }

\* a discography search during a playlist: a failed request, nothing found,
\* the track found
PlaylistDiscographyOutcomes(track) ==
    { None, Some(<< >>), Some(<<ExactItem(track)>>) }

PlaylistInit ==
    /\ \E n \in 0..MaxTracks : pl_tracks \in [1..n -> PlaylistTracks]
    /\ pl_results = << >>
    /\ pl_pc = "loop"
    /\ pl_i = 0

\* no match_playlist call
PlaylistIdle ==
    /\ pl_tracks = << >>
    /\ pl_results = << >>
    /\ pl_pc = "idle"
    /\ pl_i = 0

\* lines 707-710: the next track is taken and match_track is awaited with it
PlaylistMatchTrack ==
    /\ pl_pc = "loop"
    /\ pl_i < Len(pl_tracks)
    /\ m_track' = pl_tracks[pl_i + 1]
    /\ mpc' = "start"
    /\ m_result' = None
    /\ m_local' = NoLocals
    /\ pl_pc' = "call"
    /\ UNCHANGED <<searchVars, pl_tracks, pl_results, pl_i, notPlaylist>>

\* lines 710-721: match_track has returned; its result is appended and the
\* loop pauses for 0.1 s
PlaylistAppend ==
    /\ pl_pc = "call"
    /\ mpc = "returned"
    /\ pl_results' = Append(pl_results, m_result)
    /\ pl_i' = pl_i + 1
    /\ pl_pc' = "loop"
    /\ mpc' = "idle"
    /\ now' = now + 100
    /\ UNCHANGED <<m_track, m_result, m_local, cache, last_request_time,
                   matcher_stats, search_log, request_log, pl_tracks, notPlaylist>>

\* lines 723-743: the final statistics and the return.  The percentages of
\* lines 732-733 divide by len(results): an empty list raises
\* ZeroDivisionError and nothing is returned
PlaylistFinish ==
    /\ pl_pc = "loop"
    /\ pl_i >= Len(pl_tracks)
    /\ pl_pc' = IF Len(pl_results) = 0 THEN "raised" ELSE "returned"
    /\ UNCHANGED <<matcherVars, pl_tracks, pl_results, pl_i, notPlaylist>>

NextPlaylist ==
    \/ PlaylistMatchTrack
    \/ MatchTrackBegin
    \/ \E variant \in m_local.variants_left, response \in PlaylistArtistResponses :
          SearchArtistVariant(variant, response)
    \/ \E outcome \in PlaylistDiscographyOutcomes(m_track) : SearchDiscography(outcome)
    \/ \E response \in PlaylistTrackResponses(m_track) : TryStrategy(response)
    \/ FinalizeAndReturn
    \/ PlaylistAppend
    \/ PlaylistFinish

(***************************************************************************)
(* Two match tasks on one matcher: _search_spotify as the event loop runs  *)
(* it, in the segments between its awaits                                  *)
(***************************************************************************)
MatchTasks == {"t1", "t2"}

MaxTaskSearches == 2

\* the queries the tasks search and what the catalog answers
TaskQueries == { <<"a">>, <<"b">> }

TaskResponses ==
    {None, Some(<< >>), Some(<<CatalogTrack("id1", <<"a">>, <<<<"b">>>>)>>)}

\* the time that passes before a task is run again
TaskPauses == {0, request_delay}

\* a task that is not inside _search_spotify
TaskOutside(calls) == [pc |-> "outside", query |-> << >>, at |-> 0, wake |-> 0, calls |-> calls]

MatchTasksIdle == search_tasks = [tk \in MatchTasks |-> TaskOutside(0)]

\* lines 808-833 for task tk: the request goes out at time sent and the call
\* returns
SearchSend(tk, response, sent) ==
    LET me  == search_tasks[tk]
        out == SearchRequest(cache, get_cache_key(me.query), response, sent)
    IN  /\ cache' = out.cache
        /\ now' = sent
        /\ last_request_time' = out.last_request_time
        /\ matcher_stats' = StatsAfterSearch(matcher_stats, out)
        /\ search_log' = Append(search_log, LogEntry(me.query, me.at, out))
        /\ request_log' = request_log \o SearchRequests(out)

\* lines 789-806: task tk calls _search_spotify(query, strategy) after pause
\* has passed; it returns the cached tracks, or goes to sleep in the rate
\* limiter, or makes the request at once
TaskSearch(tk, query, pause, response) ==
    LET t   == now + pause
        got == CacheGet(cache, get_cache_key(query), t)
        me  == [search_tasks[tk] EXCEPT !.query = query, !.at = t]
    IN  /\ search_tasks[tk].pc = "outside"
        /\ search_tasks[tk].calls < MaxTaskSearches
        /\ IF got[2] # None /\ got[2][1] # << >>
           THEN LET out == SearchAfterGet(got, t, last_request_time,
                                          get_cache_key(query), response)
                IN  /\ cache' = out.cache
                    /\ now' = t
                    /\ matcher_stats' = StatsAfterSearch(matcher_stats, out)
                    /\ search_log' = Append(search_log, LogEntry(query, t, out))
                    /\ search_tasks' =
                           [search_tasks EXCEPT ![tk] = TaskOutside(me.calls + 1)]
                    /\ UNCHANGED <<last_request_time, request_log>>
           ELSE IF t - last_request_time < request_delay
           THEN /\ cache' = got[1]
                /\ now' = t
                /\ search_tasks' =
                       [search_tasks EXCEPT ![tk] =
                           [me EXCEPT !.pc = "sleeping",
                                      !.wake = last_request_time + request_delay]]
                /\ UNCHANGED <<last_request_time, matcher_stats, search_log,
                               request_log>>
           ELSE /\ LET out == SearchRequest(got[1], get_cache_key(query),
                                            response, t)
                   IN  /\ cache' = out.cache
                       /\ now' = t
                       /\ last_request_time' = out.last_request_time
                       /\ matcher_stats' = StatsAfterSearch(matcher_stats, out)
                       /\ search_log' = Append(search_log, LogEntry(query, t, out))
                       /\ request_log' = request_log \o SearchRequests(out)
                /\ search_tasks' =
                       [search_tasks EXCEPT ![tk] = TaskOutside(me.calls + 1)]
        /\ UNCHANGED notMatchTasks

\* lines 804-833: the sleep of task tk is over and it makes its request
TaskWake(tk, response) ==
    /\ search_tasks[tk].pc = "sleeping"
    /\ SearchSend(tk, response,
                  IF now < search_tasks[tk].wake THEN search_tasks[tk].wake ELSE now)
    /\ search_tasks' =
           [search_tasks EXCEPT ![tk] = TaskOutside(search_tasks[tk].calls + 1)]
    /\ UNCHANGED notMatchTasks

NextMatchTasks ==
    \/ \E tk \in MatchTasks, query \in TaskQueries, pause \in TaskPauses,
          response \in TaskResponses : TaskSearch(tk, query, pause, response)
    \/ \E tk \in MatchTasks, response \in TaskResponses : TaskWake(tk, response)

\* the components added after the cache calls are idle
ExtrasIdle == TextIdle /\ DiscIdle /\ CoverIdle /\ MatchTasksIdle

\* the components added to the four above are idle
OthersIdle == MigrateIdle /\ PlaylistIdle /\ WsIdle /\ RequestIdle /\ CacheCallIdle /\ ExtrasIdle

(***************************************************************************)
(* One scoring call on inputs drawn from sample strings                    *)
(***************************************************************************)
\* titles and names as the scraper may deliver them (AnghamiTrack strips
\* them and drops empty artists)
SourceTitles ==
    { << >>, <<"a", "b">>, <<"A", "b">>, <<"a", "+", "b">>, <<"E_ACUTE", "b">>,
      <<"SHEEN", "MEEM">>, <<"AIN", "LAM", "YEH">>, <<"SHEEN", "a", "b", "e">> }

SourceArtistLists ==
    { << >>, <<<<"a", "b">>>>, <<<<"+">>>>, <<<<"SHEEN", "MEEM">>>>,
      <<<<"AIN", "LAM", "YEH">>>>, <<<<"a", "b">>, <<"SHEEN", "MEEM">>>> }

\* names as the catalog may deliver them (.get('name', ''))
CatalogTitles ==
    { << >>, <<"a", "b">>, <<"a", " ", "b">>, <<"e", "b", "COMBINING_ACUTE">>,
      <<"A", "l", "i">>, <<"s", "h", "MEEM">>, <<"SHEEN", "MEEM">>, <<"b", "a">> }

CatalogArtistLists ==
    { << >>, <<<<"a", "b">>>>, <<<<"a", " ", "b">>>>, <<<<"(">>>>,
      <<<<"A", "l", "i">>>>, <<<<"s", "h", "MEEM">>>>, <<Discography>>,
      <<<<"b", "a">>, <<"SHEEN", "MEEM">>>> }

\* AnghamiTrack(title, artists) after __post_init__
SourceTracks == [title : SourceTitles, artists : SourceArtistLists]

CatalogItems == [name : CatalogTitles, artists : CatalogArtistLists]

ScoreInit ==
    /\ score_track \in SourceTracks
    /\ score_item \in CatalogItems
    /\ score_out = None

\* no call in progress
ScoreIdle ==
    /\ score_track = [title |-> << >>, artists |-> << >>]
    /\ score_item = [name |-> << >>, artists |-> << >>]
    /\ score_out = None

\* confidence, reasons = self._calculate_confidence(anghami_track, title, artists, album)
CalculateConfidence ==
    /\ score_out = None
    /\ score_out' = Some(calculate_confidence(score_track, score_item.name,
                                               score_item.artists))
    /\ UNCHANGED <<score_track, score_item, notScore>>

NextScore == CalculateConfidence

Next ==
    \/ \E s \in SessionIds, n \in 0..MaxPlaylists : StartMigration(s, n)
    \/ \E s \in SessionIds : TaskStart(s)
    \/ \E s \in SessionIds : ExtractResume(s)
    \/ \E s \in SessionIds : MatchBegin(s)
    \/ \E s \in SessionIds : MatchResume(s)
    \/ \E s \in SessionIds : CreateBegin(s)
    \/ \E s \in SessionIds : CreateResume(s)
    \/ \E s \in SessionIds : Complete(s)
    \/ \E s \in SessionIds : Fail(s)
    \/ \E s \in SessionIds : stop_migration(s)
    \/ \E s \in SessionIds : StopUnknown(s)

Init == SessInit /\ CreatorIdle /\ ScoreIdle /\ MatcherIdle /\ OthersIdle

Spec == Init /\ [][Next]_vars

InitCreator == SessInit /\ CreatorInit /\ ScoreIdle /\ MatcherIdle /\ OthersIdle

SpecCreator == InitCreator /\ [][NextCreator]_vars

InitScore == SessInit /\ CreatorIdle /\ ScoreInit /\ MatcherIdle /\ OthersIdle

SpecScore == InitScore /\ [][NextScore]_vars

SpecSearch == Init /\ [][NextSearch]_vars

SpecCache == Init /\ [][NextCache]_vars

InitText ==
    /\ SessInit /\ CreatorIdle /\ ScoreIdle /\ MatcherIdle
    /\ MigrateIdle /\ PlaylistIdle /\ WsIdle /\ RequestIdle /\ CacheCallIdle /\ TextInit
    /\ DiscIdle /\ CoverIdle /\ MatchTasksIdle

SpecText == InitText /\ [][NextText]_vars

InitDisc ==
    /\ SessInit /\ CreatorIdle /\ ScoreIdle /\ MatcherIdle
    /\ MigrateIdle /\ PlaylistIdle /\ WsIdle /\ RequestIdle /\ CacheCallIdle /\ TextIdle
    /\ DiscInit /\ CoverIdle /\ MatchTasksIdle

SpecDisc == InitDisc /\ [][NextDisc]_vars

InitCover ==
    /\ SessInit /\ CreatorIdle /\ ScoreIdle /\ MatcherIdle
    /\ MigrateIdle /\ PlaylistIdle /\ WsIdle /\ RequestIdle /\ CacheCallIdle /\ TextIdle
    /\ DiscIdle /\ CoverInit /\ MatchTasksIdle

SpecCover == InitCover /\ [][NextCover]_vars

\* a new matcher shared by the two tasks
InitMatchTasks ==
    /\ SessInit /\ CreatorIdle /\ ScoreIdle /\ NewMatcher /\ NoCall
    /\ MigrateIdle /\ PlaylistIdle /\ WsIdle /\ RequestIdle /\ CacheCallIdle /\ TextIdle
    /\ DiscIdle /\ CoverIdle /\ MatchTasksIdle

SpecMatchTasks == InitMatchTasks /\ [][NextMatchTasks]_vars

InitMatcher ==
    SessInit /\ CreatorIdle /\ ScoreIdle /\ NewMatcher /\ MatchCallInit /\ OthersIdle

SpecMatcher == InitMatcher /\ [][NextMatcher]_vars

\* migrate_playlists is called with skip_user_review at its default
InitMigrate ==
    /\ SessInit /\ CreatorIdle /\ ScoreIdle /\ MatcherIdle
    /\ MigrateInit /\ PlaylistIdle /\ WsIdle /\ RequestIdle /\ CacheCallIdle /\ ExtrasIdle

SpecMigrate == InitMigrate /\ [][NextMigrate]_vars

InitPlaylist ==
    /\ SessInit /\ CreatorIdle /\ ScoreIdle /\ NewMatcher /\ NoCall
    /\ MigrateIdle /\ PlaylistInit /\ WsIdle /\ RequestIdle /\ CacheCallIdle /\ ExtrasIdle

SpecPlaylist == InitPlaylist /\ [][NextPlaylist]_vars

\* the ids that get a session in the channel's specification; the other id
\* stays unknown to the registry
ChannelSessions == {"s1"}

NextChannel ==
    \/ \E s \in ChannelSessions, n \in 0..MaxPlaylists : StartMigration(s, n)
    \/ \E s \in ChannelSessions : TaskStart(s)
    \/ \E s \in ChannelSessions : ExtractResume(s)
    \/ \E s \in ChannelSessions : MatchBegin(s)
    \/ \E s \in ChannelSessions : MatchResume(s)
    \/ \E s \in ChannelSessions : CreateBegin(s)
    \/ \E s \in ChannelSessions : CreateResume(s)
    \/ \E s \in ChannelSessions : Complete(s)
    \/ \E s \in ChannelSessions : Fail(s)
    \/ \E s \in ChannelSessions : stop_migration(s)
    \/ \E s \in SessionIds : WsConnect(s)
    \/ \E s \in SessionIds : WsSend(s)
    \/ \E s \in SessionIds : WsCheck(s)
    \/ \E s \in SessionIds : WsDisconnect(s)

SpecChannel == Init /\ [][NextChannel]_vars

\* The event loop resumes a handler whose send has completed or whose sleep
\* has run out: the steps of the channel's loop are taken when they stay
\* possible.
ChannelFairness ==
    \A s \in SessionIds : WF_vars(WsSend(s)) /\ WF_vars(WsCheck(s))

SpecChannelLive == SpecChannel /\ ChannelFairness

InitRequest ==
    /\ SessInit /\ CreatorIdle /\ ScoreIdle /\ MatcherIdle
    /\ MigrateIdle /\ PlaylistIdle /\ WsIdle /\ RequestInit /\ CacheCallIdle /\ ExtrasIdle

SpecRequest == InitRequest /\ [][NextRequest]_vars

\* The call is straight-line synchronous code: once entered it runs on, each
\* request returning a response or raising and each sleep running out.
SpecRequestLive == SpecRequest /\ WF_vars(NextRequest)

(***************************************************************************)
(* Properties of the session orchestrator                                  *)
(***************************************************************************)
Registered == DOMAIN migration_sessions

TerminalStatuses == {"completed", "error", "stopped"}

NonTerminalStatuses == {"extracting", "matching", "creating"}

AllowedTransitions ==
    {<<"extracting", "matching">>, <<"matching", "creating">>,
     <<"creating", "completed">>}
    \cup (NonTerminalStatuses \X {"stopped", "error"})

\* C1: a session stopped while its task is in the matching phase is stopped
\* and stays so, and no creating work happens for it: its status is never
\* creating or completed afterwards and completedPlaylists/createdPlaylists
\* are never incremented.
C1_StopInMatchingHalts ==
    \A s \in Registered :
        "sleep_match" \in stoppedDuring[s] =>
            /\ migration_sessions[s].status = "stopped"
            /\ migration_sessions[s].completedPlaylists = 0
            /\ migration_sessions[s].createdPlaylists = 0

\* C2: every change of a session's status is an allowed transition:
\* extracting->matching, matching->creating, creating->completed, or from a
\* non-terminal status to stopped or error; a terminal status never changes.
C2_OnlyAllowedTransitions ==
    [][\A s \in Registered :
          migration_sessions'[s].status # migration_sessions[s].status =>
              <<migration_sessions[s].status, migration_sessions'[s].status>>
                  \in AllowedTransitions]_vars

\* C3: within a session progress never decreases from one snapshot to the
\* next, and it always lies in [0, 100], stop calls interleaved anywhere,
\* for any number of selected playlists.
C3_ProgressMonotoneInRange ==
    /\ [](\A s \in Registered :
            /\ FracLeq(FracOfInt(0), migration_sessions[s].progress)
            /\ FracLeq(migration_sessions[s].progress, FracOfInt(100)))
    /\ [][\A s \in Registered :
            FracLeq(migration_sessions[s].progress,
                    migration_sessions'[s].progress)]_vars

\* C3 witness: a session that was stopped during matching while another,
\* with no playlist selected, went from 0 straight to 100, and whose own
\* task has run through all three phases to progress 100.
C3_Witness ==
    \E s \in Registered, t \in Registered :
        /\ "sleep_match" \in stoppedDuring[s]
        /\ task[s].pc = "done"
        /\ task[s].n = MaxPlaylists
        /\ FracEq(migration_sessions[s].progress, FracOfInt(100))
        /\ task[t].n = 0
        /\ task[t].pc = "done"

(***************************************************************************)
(* Properties of the playlist creator                                      *)
(***************************************************************************)
RECURSIVE Flatten(_)
Flatten(seqs) == IF seqs = << >> THEN << >> ELSE Head(seqs) \o Flatten(Tail(seqs))

\* every URI handed to the upload endpoint so far, in order
SentUris == Flatten(add_calls)

\* create_playlist_from_matches has got past the track batches
BatchesOver == cpc \in {"cover", "done"} /\ success(result)

CeilBatches(n) == (n + max_batch_size - 1) \div max_batch_size

\* C4: no upload call carries more than 100 URIs; the calls are the
\* consecutive slices of the URI list, in order; and for N URIs selected for
\* upload exactly ceil(N/100) calls are made, whether or not calls fail
\* (none for N = 0).
C4_BatchesOfAtMost100 ==
    /\ \A c \in 1..Len(add_calls) :
          /\ Len(add_calls[c]) <= 100
          /\ add_calls[c] =
                SubSeq(track_uris, 100 * (c - 1) + 1, Min(100 * c, Len(track_uris)))
    /\ Len(add_calls) <= CeilBatches(Len(track_uris))
    /\ BatchesOver => Len(add_calls) = CeilBatches(Len(track_uris))

\* C4 witness: 150 URIs went out in two calls of 100 and 50, the first of
\* which failed.
C4_Witness ==
    /\ cpc = "done"
    /\ Len(track_uris) = 150
    /\ Len(add_calls) = 2
    /\ Len(add_calls[1]) = 100
    /\ Len(add_calls[2]) = 50
    /\ result.tracks_failed = 100
    /\ result.tracks_added = 50

\* result k of the input may be uploaded
Uploadable(k) ==
    /\ has_match(match_results[k])
    /\ (~match_results[k].requires_user_review \/ skip_user_review)

\* the input position of the result a sent URI was made from (the catalog
\* ids of the input results are their positions)
SourceIndex(uri) == uri[2]

\* C9: a URI is uploaded only for a result that has a match and
\* (requiresReview is false or skipReview is true) - so with skipReview=false
\* never for a result that requires review - and once the batches are over
\* each such result has contributed exactly one URI, in input order.
C9_UploadsOnlyAddNow ==
    /\ \A j \in 1..Len(SentUris) :
          LET k == SourceIndex(SentUris[j])
          IN /\ k \in 1..Len(match_results)
             /\ match_results[k].best_match # None
             /\ SentUris[j] = SpotifyUri(match_results[k].best_match[1].spotify_id)
             /\ Uploadable(k)
             /\ ~skip_user_review => ~match_results[k].requires_user_review
    /\ \A j \in 1..(Len(SentUris) - 1) :
          SourceIndex(SentUris[j]) < SourceIndex(SentUris[j + 1])
    /\ BatchesOver =>
          Len(SentUris) = Cardinality({k \in 1..Len(match_results) : Uploadable(k)})

\* C9 witness: skipReview=false, the input holds results that require review
\* and have a candidate, and the other results have been uploaded.
C9_Witness ==
    /\ cpc = "done"
    /\ ~skip_user_review
    /\ Len(SentUris) > 0
    /\ \E k \in 1..Len(match_results) :
          /\ match_results[k].requires_user_review
          /\ has_match(match_results[k])

\* C10: with skipReview=false every result with requiresReview=true, a result
\* with no candidate included, appears exactly once in reviewTracks with its
\* source track and best candidate (null if none), and tracksSkippedReview
\* counts these results.
C10_ReviewListsEveryReviewResult ==
    (cpc = "done" /\ success(result) /\ ~skip_user_review) =>
        /\ \A k \in 1..Len(match_results) :
              match_results[k].requires_user_review =>
                 /\ Cardinality({j \in 1..Len(result.review_required_tracks) :
                        result.review_required_tracks[j].anghami_track
                            = match_results[k].anghami_track}) = 1
                 /\ \A j \in 1..Len(result.review_required_tracks) :
                        result.review_required_tracks[j].anghami_track
                              = match_results[k].anghami_track
                          => result.review_required_tracks[j].spotify_match
                              = match_results[k].best_match
        /\ result.tracks_skipped_review =
              Cardinality({k \in 1..Len(match_results) :
                              match_results[k].requires_user_review})

(***************************************************************************)
(* Properties of confidence scoring                                        *)
(***************************************************************************)
\* the form two texts are compared in
NormalForm(text) == clean_search_text(Lower(text))

\* the title of the item equals the track's, and one artist of the item
\* equals one of the track's, after normalization, all of them non-empty
SameTitleAndArtist(track, item) ==
    /\ track.title # << >>
    /\ item.name # << >>
    /\ NormalForm(track.title) = NormalForm(item.name)
    /\ \E i \in 1..Len(track.artists), j \in 1..Len(item.artists) :
          /\ track.artists[i] # << >>
          /\ item.artists[j] # << >>
          /\ NormalForm(track.artists[i]) = NormalForm(item.artists[j])

\* C7: every candidate's confidence score lies in [0, 1], for script-variant
\* and other tracks and every combination of bonuses.
C7_ScoreInUnitInterval ==
    score_out # None =>
        /\ FracLeq(<<0, 1>>, score_out[1][1])
        /\ FracLeq(score_out[1][1], <<1, 1>>)

\* C7 witness: a script-variant track scored with the artist bonus and both
\* exact-match bonuses, whose components add up to more than 1.
C7_Witness ==
    /\ score_out # None
    /\ IsArabicTrack(score_track)
    /\ \E k \in 1..Len(score_out[1][2]) :
          score_out[1][2][k][1] = "Arabic artist successfully identified"
    /\ \E k \in 1..Len(score_out[1][2]) : score_out[1][2][k][1] = "Exact title match"
    /\ \E k \in 1..Len(score_out[1][2]) : score_out[1][2][k][1] = "Exact artist match"
    /\ score_out[1][1] = <<1, 1>>

\* C8: when the track's title equals the item's title and one source artist
\* equals one catalog artist after normalization (all non-empty), the score
\* is exactly 1.0, for script-variant and other tracks alike.
C8_IdenticalScoresOne ==
    (score_out # None /\ SameTitleAndArtist(score_track, score_item)) =>
        score_out[1][1] = <<1, 1>>

\* C8 witness: a track without Arabic script whose title and artist differ
\* from the item's in case, punctuation and diacritics only, scored.
C8_Witness ==
    /\ score_out # None
    /\ ~IsArabicTrack(score_track)
    /\ SameTitleAndArtist(score_track, score_item)
    /\ NormalForm(score_track.title) # << >>
    /\ score_track.title # score_item.name
    /\ \A j \in 1..Len(score_item.artists) : score_item.artists[j] \notin
          {score_track.artists[i] : i \in 1..Len(score_track.artists)}

(***************************************************************************)
(* Properties of the search cache                                          *)
(***************************************************************************)
\* C5: of two track searches on one matcher with equal query strings
\* (compared lower-cased and trimmed), the first answered by the catalog
\* with whatever result and the second made within the TTL window of the
\* first, only the first causes an outbound search request.
C5_OneRequestForEqualQueries ==
    \A i, j \in 1..Len(search_log) :
        ( /\ i < j
          /\ Strip(Lower(search_log[i].query)) = Strip(Lower(search_log[j].query))
          /\ search_log[i].outbound
          /\ search_log[i].answered
          /\ search_log[j].at - search_log[i].at < cache_duration )
        => ~search_log[j].outbound

(***************************************************************************)
(* Properties of match_track                                               *)
(***************************************************************************)
\* the candidate carries the track's own title and one of its artists
IdenticalCandidate(track, match) ==
    /\ match.title = track.title
    /\ \E i \in 1..Len(track.artists), j \in 1..Len(match.artists) :
          match.artists[j] = track.artists[i]

\* C6: a returned MatchResult has requiresReview = true exactly when it has
\* no best match or its best match's confidence is below 0.75; and when a
\* search returned a catalog item with the track's title and artist, the
\* result has requiresReview = false and a best match of confidence >= 0.75.
C6_ReviewIffNoConfidentMatch ==
    mpc = "returned" =>
        /\ m_result.requires_user_review <=>
              \/ m_result.best_match = None
              \/ FracLess(m_result.best_match[1].confidence_score, <<75, 100>>)
        /\ (\E k \in 1..Len(m_result.spotify_matches) :
               IdenticalCandidate(m_track, m_result.spotify_matches[k]))
           => /\ ~m_result.requires_user_review
              /\ m_result.best_match # None
              /\ FracLeq(<<75, 100>>, m_result.best_match[1].confidence_score)

\* C6 witness: a track returned after a strategy delivered the identical
\* catalog item behind another one and an earlier strategy a weaker candidate.
C6_Witness ==
    /\ mpc = "returned"
    /\ \E k \in 2..Len(m_result.spotify_matches) :
          IdenticalCandidate(m_track, m_result.spotify_matches[k])
    /\ ~IdenticalCandidate(m_track, m_result.spotify_matches[1])
    /\ ~m_result.requires_user_review
    /\ FracLeq(<<75, 100>>, m_result.best_match[1].confidence_score)

\* the numbers of the batches that have an entry in failed_tracks
FailedBatchNumbers == {failed_tracks[j].batch : j \in 1..Len(failed_tracks)}

\* the URIs recorded for batch b, in the order they were recorded
RecordedFor(b) ==
    LET OfBatch(r) == r.batch = b
        recs       == SelectSeq(failed_tracks, OfBatch)
    IN [j \in 1..Len(recs) |-> recs[j].uri]

RECURSIVE SumLen(_)
SumLen(seqs) == IF seqs = << >> THEN 0 ELSE Len(Head(seqs)) + SumLen(Tail(seqs))

\* C11: when an upload batch fails, every URI of that batch and no other URI
\* is recorded in failedTracks with that batch's index and error; the
\* remaining batches are still attempted; and on return tracksAdded +
\* tracksFailed equals the number of URIs selected for upload.
C11_FailedBatchRecordedWhole ==
    /\ \A j \in 1..Len(failed_tracks) :
          /\ failed_tracks[j].batch \in 1..Len(add_calls)
          /\ failed_tracks[j].error = "request failed"
    /\ \A b \in FailedBatchNumbers :
          RecordedFor(b) =
             SubSeq(track_uris, 100 * (b - 1) + 1, Min(100 * b, Len(track_uris)))
    /\ added_count + Len(failed_tracks) = SumLen(add_calls)
    /\ BatchesOver =>
          /\ Len(add_calls) = CeilBatches(Len(track_uris))
          /\ result.failed_tracks = failed_tracks
          /\ result.tracks_failed = Len(failed_tracks)
          /\ result.tracks_added + result.tracks_failed = Len(track_uris)

\* C11 witness: three batches were attempted, the second alone failed, and
\* the call has returned.
C11_Witness ==
    /\ cpc = "done"
    /\ Len(add_calls) = 3
    /\ FailedBatchNumbers = {2}
    /\ result.tracks_failed = 100
    /\ result.tracks_added = Len(track_uris) - 100

\* C12: whatever the outcomes of the track batches and of the cover art,
\* success is true if and only if the creation of the empty playlist
\* produced a playlist id (the step that counts the creation request as an
\* API call); a cover-art failure only leaves coverArtUploaded false, and
\* targetPlaylistId, tracksAdded and tracksFailed keep their values.
C12_SuccessIffPlaylistCreated ==
    [][ /\ cpc = "create" =>
              (success(result') <=>
                  creator_stats'.api_calls = creator_stats.api_calls + 1)
        /\ cpc \in {"process", "batch", "cover"} =>
              /\ success(result') = success(result)
              /\ result'.spotify_playlist_id = result.spotify_playlist_id
        /\ (cpc = "cover" /\ ~result'.cover_art_uploaded) =>
              result' = [result EXCEPT !.cover_art_uploaded = FALSE]
        /\ cpc = "cover" =>
              /\ result'.tracks_added = result.tracks_added
              /\ result'.tracks_failed = result.tracks_failed ]_vars

\* C12 witness: the playlist was created, one batch failed and one was
\* added, and the cover art of a playlist that has one failed to upload: the
\* result is a success with its counts.
C12_Witness ==
    /\ cpc = "done"
    /\ success(result)
    /\ anghami_playlist.cover_art_url # None
    /\ ~result.cover_art_uploaded
    /\ result.tracks_failed > 0
    /\ result.tracks_added > 0

(***************************************************************************)
(* Properties of migrate_playlists                                         *)
(***************************************************************************)
\* C13: the input playlists are processed one after another in input order
\* and exactly one PlaylistCreationResult is appended per input; the count
\* of processed playlists is the sum of the created and the failed ones and,
\* on return, the number of inputs; a playlist whose creation fails does not
\* keep a later one from being processed.
C13_OneResultPerInputInOrder ==
    /\ Len(report.playlist_results) = mig_i
    /\ mig_i <= Len(playlists_with_matches)
    /\ \A k \in 1..Len(report.playlist_results) :
          report.playlist_results[k].anghami_playlist
             = playlists_with_matches[k].playlist
    /\ mig_pc = "call" =>
          anghami_playlist = playlists_with_matches[mig_i + 1].playlist
    /\ report.playlists_processed = Len(report.playlist_results)
    /\ report.playlists_processed
          = report.playlists_created + report.playlists_failed
    /\ report.playlists_failed =
          Cardinality({k \in 1..Len(report.playlist_results) :
                          report.playlist_results[k].spotify_playlist_id = None})
    /\ mig_pc = "returned" =>
          report.playlists_processed = Len(playlists_with_matches)

\* C13 witness: of two inputs the first failed to be created and the second
\* was created, and the call has returned.
C13_Witness ==
    /\ mig_pc = "returned"
    /\ Len(playlists_with_matches) = 2
    /\ report.playlist_results[1].spotify_playlist_id = None
    /\ report.playlist_results[2].spotify_playlist_id # None
    /\ report.playlists_failed = 1
    /\ report.playlists_created = 1

(***************************************************************************)
(* Properties of match_playlist                                            *)
(***************************************************************************)
\* C14: matchPlaylist returns exactly one MatchResult per source track, in
\* source order, for every playlist, whatever its number of tracks (zero
\* included) and also when the matching of a track met an error: the call
\* never ends without returning, and what it returns holds the result of
\* track k at position k.
C14_OneResultPerTrackInOrder ==
    /\ pl_pc # "raised"
    /\ Len(pl_results) = pl_i
    /\ \A k \in 1..Len(pl_results) : pl_results[k].anghami_track = pl_tracks[k]
    /\ pl_pc = "returned" => Len(pl_results) = Len(pl_tracks)

(***************************************************************************)
(* Properties of the session task's failure handling and of stop           *)
(***************************************************************************)
\* the fields of a session a phase step advances
PhaseFields(st) ==
    <<st.progress, st.matchedTracks, st.completedPlaylists, st.createdPlaylists>>

\* C15: when a failure is raised inside a phase of a session task, the
\* session's status becomes error and the failure text is appended to errors
\* as exactly one new entry; from then on the task performs no phase step, so
\* progress, matchedTracks, completedPlaylists and createdPlaylists keep the
\* values they had when the failure occurred.  Whenever status is error,
\* errors is non-empty.
C15_FailureEndsTheTask ==
    /\ [](\A s \in Registered :
             migration_sessions[s].status = "error"
                => migration_sessions[s].errors # << >>)
    /\ [][\A s \in Registered :
             /\ (task[s].pc # "failed" /\ task'[s].pc = "failed") =>
                   /\ migration_sessions'[s].status = "error"
                   /\ migration_sessions'[s].errors =
                         Append(migration_sessions[s].errors, "failure")
                   /\ PhaseFields(migration_sessions'[s])
                         = PhaseFields(migration_sessions[s])
             /\ task[s].pc = "failed" =>
                   /\ task'[s] = task[s]
                   /\ PhaseFields(migration_sessions'[s])
                         = PhaseFields(migration_sessions[s])
                   /\ migration_sessions'[s].errors = migration_sessions[s].errors
       ]_vars

\* C15 witness: a task failed during the matching phase; the session shows
\* error with one entry in errors and the counts of the moment of failure.
C15_Witness ==
    \E s \in Registered :
        /\ task[s].pc = "failed"
        /\ migration_sessions[s].status = "error"
        /\ Len(migration_sessions[s].errors) = 1
        /\ migration_sessions[s].matchedTracks = 3
        /\ migration_sessions[s].createdPlaylists = 0

\* C16: stop on a registered session sets only its status (to stopped) and
\* its message (to the stop message): progress, currentPlaylistName, every
\* counter and errors keep their values, and no other session changes; stop
\* returns true for exactly the ids in the registry, and a stop adds no
\* entry to the registry: an id enters it only with the start of its task.
\* (A step that changes a session and leaves every task where it was is a
\* stop.)
C16_StopSetsStatusAndMessageOnly ==
    [][ /\ (task' = task /\ migration_sessions' # migration_sessions) =>
             \E s \in Registered :
                /\ stop_migration_returns(s)
                /\ migration_sessions' =
                     [migration_sessions EXCEPT
                         ![s].status = "stopped",
                         ![s].message = <<"Migration stopped by user">>]
        /\ \A s \in SessionIds \ Registered :
              /\ ~stop_migration_returns(s)
              /\ s \in DOMAIN migration_sessions' => task'[s].pc = "ready"
      ]_vars

\* C16 witness: a session was stopped while its task was matching, and its
\* counters show the values of that moment.
C16_Witness ==
    \E s \in Registered :
        /\ migration_sessions[s].status = "stopped"
        /\ task[s].pc = "sleep_match"
        /\ migration_sessions[s].matchedTracks = 2
        /\ migration_sessions[s].currentPlaylist # None
        /\ FracLeq(FracOfInt(25), migration_sessions[s].progress)

(***************************************************************************)
(* Properties of the progress channel                                      *)
(***************************************************************************)
\* the handler of id s is in its loop
Polling(s) == ws[s] \in {"loop", "sent"}

\* C17: for a session id in the registry, the progress channel of a consumer
\* that stays connected closes only at a moment when the session's status is
\* completed, error or stopped - while the status is anything else the
\* handler goes on polling - and once the session's task has run to its end
\* the channel eventually closes.
C17_ChannelClosesOnTerminalStatus ==
    /\ [][\A s \in SessionIds :
             (ws[s] # "closed" /\ ws'[s] = "closed") =>
                /\ s \in Registered
                /\ migration_sessions[s].status \in TerminalStatuses
                /\ migration_sessions'[s].status \in TerminalStatuses]_vars
    /\ [][\A s \in Registered :
             (Polling(s) /\ ws'[s] \notin {ws[s], "disconnected"}
                /\ migration_sessions[s].status \in NonTerminalStatuses)
                => Polling(s)']_vars
    /\ \A s \in SessionIds :
          (s \in Registered /\ task[s].pc \in {"done", "failed"} /\ Polling(s))
             ~> (ws[s] \in {"closed", "disconnected"})

\* C17 witness: the channel of a session whose task ran to completion has
\* closed.
C17_Witness ==
    \E s \in Registered :
        /\ task[s].pc = "done"
        /\ task[s].n = MaxPlaylists
        /\ migration_sessions[s].status = "completed"
        /\ ws[s] = "closed"
        /\ s \notin websocket_connections

(***************************************************************************)
(* Properties of make_authenticated_request                                *)
(***************************************************************************)
\* request k of the call failed other than by a 429
TransientFailure(k) == http_log[k].kind \in {"http_error", "request_exception"}

\* a request follows request k
Retried(k) == Len(http_log) > k \/ rpc = "request"

FailuresUpTo(k) == Cardinality({j \in 1..k : TransientFailure(j)})

\* C19: a 429 response makes the call wait the Retry-After interval and then
\* retry, and it does not count against the backoff schedule: it consumes
\* none of the 3 attempts - the call gives up only after 3 transient
\* failures - and the wait after a later transient failure is the one for
\* the number of transient failures so far.
C19_RateLimitOutsideBackoff ==
    /\ \A k \in 1..Len(http_log) :
          http_log[k].kind = "429" =>
             /\ slept[k] = RetryAfter(http_log[k])
             /\ Retried(k)
    /\ \A k \in 1..Len(slept) :
          TransientFailure(k) => slept[k] = 2 ^ FailuresUpTo(k - 1)
    /\ (rpc = "raised" /\ http_log # << >>) => FailuresUpTo(Len(http_log)) = 3

(***************************************************************************)
(* Properties of the matcher's request pacing                              *)
(***************************************************************************)
\* C20: between any two consecutive outbound catalog calls of the matching
\* engine - track search, artist search, artist-albums and album-tracks
\* requests alike, in the script-variant path and in the general cascade -
\* at least the minimum inter-request delay of 100 ms elapses.
C20_RequestsAtLeast100msApart ==
    \A k \in 1..(Len(request_log) - 1) :
        request_log[k + 1].time - request_log[k].time >= 100

\* a track whose title and primary artist are in Arabic script and whose
\* artist has no entry in ARABIC_TRANSLITERATIONS
ArabicWithoutTableEntry(track) ==
    /\ is_arabic_text(track.title)
    /\ is_arabic_text(primary_artist(track))
    /\ primary_artist(track) \notin DOMAIN ARABIC_TRANSLITERATIONS
    /\ track.title \notin DOMAIN ARABIC_TRANSLITERATIONS

\* C21: when match_track has returned for a track whose title and artist are
\* Arabic-script and have no transliteration-table entry, the result's
\* search_queries_tried is not empty, whatever the catalog answered
C21_ArabicResultHasQueriesTried ==
    (mpc = "returned" /\ ArabicWithoutTableEntry(m_track))
        => m_result.search_queries_tried # << >>

\* lo <= progress <= hi
ProgressWithin(st, lo, hi) ==
    /\ FracLeq(FracOfInt(lo), st.progress)
    /\ FracLeq(st.progress, FracOfInt(hi))

\* the session's record can be read (no task is between two awaits) and no
\* stop was called on the session
ObservableUnstopped(s) ==
    /\ LoopFree
    /\ s \in DOMAIN migration_sessions
    /\ stoppedDuring[s] = {}

\* C22: at every observable snapshot of a session that has not been stopped
\* the progress lies in the band of the phase: extracting in 0..25, matching
\* in 25..75, creating in 75..100
C22_ProgressInPhaseBand ==
    \A s \in SessionIds :
        ObservableUnstopped(s) =>
            LET st == migration_sessions[s]
            IN /\ st.status = "extracting" => ProgressWithin(st, 0, 25)
               /\ st.status = "matching" => ProgressWithin(st, 25, 75)
               /\ st.status = "creating" => ProgressWithin(st, 75, 100)

\* C22 witness: an unstopped session is seen in the creating phase at the
\* top of its band while another is seen in the matching phase
C22_Witness ==
    \E s, t \in SessionIds :
        /\ ObservableUnstopped(s) /\ ObservableUnstopped(t)
        /\ migration_sessions[s].status = "creating"
        /\ FracEq(migration_sessions[s].progress, FracOfInt(100))
        /\ migration_sessions[t].status = "matching"
        /\ task[t].matched_count > 1

\* C23: whenever a session's status is completed its progress is 100 and its
\* currentPlaylist is None, also when stop calls came between the segments
\* of the session's task
C23_CompletedIsFullAndUnnamed ==
    \A s \in DOMAIN migration_sessions :
        migration_sessions[s].status = "completed" =>
            /\ FracEq(migration_sessions[s].progress, FracOfInt(100))
            /\ migration_sessions[s].currentPlaylist = None

\* C23 witness: a session that was stopped while its task slept in the
\* creating loop of two playlists is completed
C23_Witness ==
    \E s \in DOMAIN migration_sessions :
        /\ migration_sessions[s].status = "completed"
        /\ "sleep_create" \in stoppedDuring[s]
        /\ migration_sessions[s].totalPlaylists = 2

\* C24: matchedTracks stays within 0..totalTracks, a step changes it only by
\* adding one, totalTracks keeps the value given when the session was
\* started, and when the status becomes creating matchedTracks equals
\* totalTracks
C24_MatchedTracksCountsEveryTrack ==
    /\ [](\A s \in DOMAIN migration_sessions :
             /\ 0 <= migration_sessions[s].matchedTracks
             /\ migration_sessions[s].matchedTracks <= migration_sessions[s].totalTracks)
    /\ [][\A s \in DOMAIN migration_sessions :
             /\ s \in DOMAIN migration_sessions'
             /\ migration_sessions'[s].totalTracks = migration_sessions[s].totalTracks
             /\ \/ migration_sessions'[s].matchedTracks = migration_sessions[s].matchedTracks
                \/ migration_sessions'[s].matchedTracks = migration_sessions[s].matchedTracks + 1
             /\ (migration_sessions[s].status # "creating"
                   /\ migration_sessions'[s].status = "creating")
                  => migration_sessions'[s].matchedTracks = migration_sessions'[s].totalTracks
          ]_vars

\* C24 witness: a session of two playlists has entered the creating phase
\* with all 25 tracks counted
C24_Witness ==
    \E s \in DOMAIN migration_sessions :
        /\ migration_sessions[s].status = "creating"
        /\ migration_sessions[s].totalPlaylists = 2
        /\ migration_sessions[s].matchedTracks = 25
        /\ migration_sessions[s].totalTracks = 25

\* positions of the task before the first statement of the creating phase
BeforeCreating == {"ready", "sleep_extract", "phase2", "sleep_match", "phase3"}

\* C25: completedPlaylists = createdPlaylists <= totalPlaylists in every
\* state, both are 0 before the creating phase, a step adds at most one to
\* them, and when the status becomes completed both equal totalPlaylists
C25_CreatedCountsEveryPlaylist ==
    /\ [](\A s \in DOMAIN migration_sessions :
             LET st == migration_sessions[s]
             IN /\ st.completedPlaylists = st.createdPlaylists
                /\ 0 <= st.createdPlaylists
                /\ st.createdPlaylists <= st.totalPlaylists
                /\ (task[s].pc \in BeforeCreating \/ st.status \in {"extracting", "matching"})
                      => st.createdPlaylists = 0)
    /\ [][\A s \in DOMAIN migration_sessions :
             /\ s \in DOMAIN migration_sessions'
             /\ \/ migration_sessions'[s].createdPlaylists = migration_sessions[s].createdPlaylists
                \/ migration_sessions'[s].createdPlaylists = migration_sessions[s].createdPlaylists + 1
             /\ (migration_sessions[s].status # "completed"
                   /\ migration_sessions'[s].status = "completed")
                  => /\ migration_sessions'[s].createdPlaylists = migration_sessions'[s].totalPlaylists
                     /\ migration_sessions'[s].completedPlaylists = migration_sessions'[s].totalPlaylists
          ]_vars

\* C25 witness: a session of two playlists is completed with both counted,
\* while another session is seen after its first of two
C25_Witness ==
    \E s, t \in DOMAIN migration_sessions :
        /\ migration_sessions[s].status = "completed"
        /\ migration_sessions[s].totalPlaylists = 2
        /\ migration_sessions[s].createdPlaylists = 2
        /\ migration_sessions[t].status = "creating"
        /\ migration_sessions[t].totalPlaylists = 2
        /\ migration_sessions[t].completedPlaylists = 1

\* a segment of session a's task
TaskStep(a) ==
    \/ TaskStart(a) \/ ExtractResume(a) \/ MatchBegin(a) \/ MatchResume(a)
    \/ CreateBegin(a) \/ CreateResume(a) \/ Complete(a) \/ Fail(a)

\* C26: no segment of session a's task and no stop_migration(a) changes the
\* record (status, progress, counters, errors, message) of another session b
C26_SessionsAreIsolated ==
    [][\A a \in SessionIds :
          (TaskStep(a) \/ stop_migration(a)) =>
              \A b \in DOMAIN migration_sessions \ {a} :
                  /\ b \in DOMAIN migration_sessions'
                  /\ migration_sessions'[b] = migration_sessions[b]
      ]_vars

\* C26 witness: two sessions are under way, one was stopped while its task
\* slept in the matching loop and has run on since, the other was neither
\* stopped nor failed and is in its creating phase
C26_Witness ==
    \E a, b \in DOMAIN migration_sessions :
        /\ a # b
        /\ "sleep_match" \in stoppedDuring[a]
        /\ task[a].pc = "sleep_create"
        /\ stoppedDuring[b] = {}
        /\ task[b].pc = "sleep_create"
        /\ migration_sessions[b].status = "creating"

\* the creation of the empty playlist has failed: the failure is recorded
\* and no playlist id was stored
CreationFailed == result.error_message # None /\ ~success(result)

\* C27: when the creation of the empty playlist fails,
\* create_playlist_from_matches has returned a result with success false and
\* an error message, no add-tracks request was sent, no cover art was
\* uploaded, tracks_added, tracks_failed and tracks_skipped_review are 0 and
\* cover_art_uploaded is false; the call takes no further step
C27_FailedCreationReturnsEmptyResult ==
    /\ [](CreationFailed =>
             /\ cpc = "done"
             /\ result.error_message = Some("Failed to create empty playlist")
             /\ add_calls = << >>
             /\ creator_stats.cover_art_uploads = 0
             /\ creator_stats.api_calls = 0
             /\ result.tracks_added = 0
             /\ result.tracks_failed = 0
             /\ result.tracks_skipped_review = 0
             /\ ~result.cover_art_uploaded)
    /\ [][~CreationFailed]_vars

\* C27 witness: the creation failed for a playlist that has cover art and
\* whose results hold tracks to add and a track for review
C27_Witness ==
    /\ CreationFailed
    /\ cpc = "done"
    /\ anghami_playlist.cover_art_url # None
    /\ ~skip_user_review
    /\ process_match_results(match_results, skip_user_review)[1] # << >>
    /\ process_match_results(match_results, skip_user_review)[2] # << >>

\* request k of request_log was sent by a _search_spotify call, the only
\* place where the cache is looked up (line 795), after that lookup
SentAfterLookup(k) ==
    \E j \in 1..Len(search_log) :
        /\ search_log[j].outbound
        /\ request_log[k].kind = "track_search"
        /\ search_log[j].at <= request_log[k].time

\* call j of search_log found an unexpired entry for its query in the cache
CacheHit(j) ==
    \E i \in 1..(j - 1) :
        /\ Strip(Lower(search_log[i].query)) = Strip(Lower(search_log[j].query))
        /\ search_log[i].answered
        /\ search_log[j].at - search_log[i].at < cache_duration

\* C28: every request sent to the catalog while a track is matched (track
\* searches, artist searches, discography requests) is preceded by a lookup
\* of its query in the search cache, and a call that hits the cache sends no
\* request
C28_EveryRequestLooksUpTheCache ==
    /\ \A k \in 1..Len(request_log) : SentAfterLookup(k)
    /\ \A j \in 1..Len(search_log) : CacheHit(j) => ~search_log[j].outbound

(***************************************************************************)
(* Properties of SpotifySearchCache                                        *)
(***************************************************************************)
\* the calls before call j that set the key of call j's query
SetsBefore(j) ==
    { i \in 1..(j - 1) :
        /\ cache_log[i].op = "set"
        /\ get_cache_key(cache_log[i].query) = get_cache_key(cache_log[j].query) }

\* the most recent of them
LastSetBefore(j) == CHOOSE i \in SetsBefore(j) : \A k \in SetsBefore(j) : k <= i

\* call j is a get that finds an entry younger than the duration: no get
\* has removed the entry since it was set, and time only moves forward
FreshAt(j) ==
    /\ SetsBefore(j) # {}
    /\ cache_log[j].at - cache_log[LastSetBefore(j)].at < cache_duration

\* C29: after any sequence of set and get calls, a get whose entry has
\* reached the duration (or that has no entry) returns None and leaves the
\* key out of the cache; a get whose entry is younger returns the data of the
\* most recent set for the key and leaves the cache as it was
C29_GetServesOnlyFreshEntries ==
    /\ [](\A j \in 1..Len(cache_log) :
             cache_log[j].op = "get" =>
                 cache_log[j].returned =
                     IF FreshAt(j) THEN cache_log[LastSetBefore(j)].data ELSE None)
    /\ [][Len(cache_log') > Len(cache_log) /\ cache_log'[Len(cache_log')].op = "get"
            => LET j == Len(cache_log')
                   key == get_cache_key(cache_log'[j].query)
               IN IF cache_log'[j].returned = None
                  THEN /\ key \notin DOMAIN cache'
                       /\ \A k \in DOMAIN cache \ {key} :
                             k \in DOMAIN cache' /\ cache'[k] = cache[k]
                  ELSE cache' = cache
       ]_vars

\* C29 witness: an entry was set and then set again under another spelling
\* of the query, the get one tick before the second set's duration is over
\* returned the second data, and the get one tick later returned None
C29_Witness ==
    /\ Len(cache_log) = 4
    /\ cache_log[1].op = "set" /\ cache_log[1].data = Some(<< >>)
    /\ cache_log[2].op = "set" /\ cache_log[2].query # cache_log[1].query
    /\ cache_log[2].data # cache_log[1].data
    /\ cache_log[3].op = "get" /\ cache_log[3].returned = cache_log[2].data
    /\ cache_log[3].at - cache_log[2].at = cache_duration - 1
    /\ cache_log[4].op = "get" /\ cache_log[4].returned = None
    /\ cache_log[4].at - cache_log[2].at = cache_duration
    /\ get_cache_key(cache_log[4].query) = get_cache_key(cache_log[1].query)

(***************************************************************************)
(* Properties of the general cascade                                       *)
(***************************************************************************)
\* the order of the strategies
StrategyOrder ==
    <<"exact_fields", "exact_quoted", "normalized_fields", "main_title",
      "broad_search", "artist_only", "title_only">>

StrategyRank(name) == CHOOSE k \in 1..Len(StrategyOrder) : StrategyOrder[k] = name

\* the strategies whose condition holds for a track
ApplicableStrategies(track) ==
    IF track.title = << >> \/ primary_artist(track) = << >> THEN {}
    ELSE LET clean_title  == clean_search_text(track.title)
             clean_artist == clean_search_text(primary_artist(track))
             main_title   == extract_main_title(track.title)
         IN {"exact_fields", "exact_quoted", "broad_search"}
            \cup (IF clean_title # << >> /\ clean_artist # << >>
                  THEN {"normalized_fields"} ELSE {})
            \cup (IF main_title # track.title /\ main_title # << >>
                  THEN {"main_title"} ELSE {})
            \cup (IF Len(clean_title) < 3 THEN {"artist_only"} ELSE {})
            \cup (IF Len(clean_title) > 3 THEN {"title_only"} ELSE {})

\* the results of a strategy hold a candidate at or above the threshold
ReachesThreshold(track, tracks, name) ==
    LET scored == score_matches(track, tracks, <<name, << >> >>)
    IN \E k \in 1..Len(scored) :
          FracLeq(<<confidence_threshold, 100>>, scored[k].confidence_score)

\* the strategies tried so far, in a cascade that tried some
CascadeInOrder(track, tried, log) ==
    /\ Len(log) = Len(tried)
    /\ \A j \in 1..Len(tried) :
          /\ tried[j][1] \in ApplicableStrategies(track)
          /\ log[j].query = tried[j][2]
          /\ \A i \in 1..(j - 1) :
                /\ StrategyRank(tried[i][1]) < StrategyRank(tried[j][1])
                /\ ~ReachesThreshold(track, log[i].tracks, tried[i][1])
          /\ \A name \in ApplicableStrategies(track) :
                StrategyRank(name) < StrategyRank(tried[j][1])
                   => \E i \in 1..(j - 1) : tried[i][1] = name

\* C30: the cascade tries the applicable strategies in the order
\* exact_fields, exact_quoted, normalized_fields, main_title, broad_search,
\* artist_only, title_only, leaving none out; every query it searches for is
\* in search_queries_tried; no strategy is tried after one whose results
\* reach the threshold of 0.75; and a cascade that has ended without reaching
\* the threshold has tried every applicable strategy
C30_CascadeInOrderUntilThreshold ==
    m_result # None =>
        LET tried == m_result.search_queries_tried
        IN /\ CascadeInOrder(m_track, tried, search_log)
           /\ (mpc = "returned" /\ tried # << >>) =>
                 \/ ReachesThreshold(m_track, search_log[Len(tried)].tracks,
                                     tried[Len(tried)][1])
                 \/ {tried[j][1] : j \in 1..Len(tried)} = ApplicableStrategies(m_track)

\* C30 witness: the cascade of a track with a featured artist has ended at
\* its fourth strategy, main_title, whose results reached the threshold,
\* with strategies left untried
C30_Witness ==
    /\ mpc = "returned"
    /\ Len(m_result.search_queries_tried) = 4
    /\ m_result.search_queries_tried[4][1] = "main_title"
    /\ ReachesThreshold(m_track, search_log[4].tracks, "main_title")
    /\ Cardinality(ApplicableStrategies(m_track)) > 4

(***************************************************************************)
(* Properties of the artist-first step                                     *)
(***************************************************************************)
\* the result holds a candidate of a discography search with confidence of
\* at least 0.6
HasGoodDiscographyMatch(res) ==
    \E k \in 1..Len(res.spotify_matches) :
        /\ res.spotify_matches[k].match_strategy[1] = "discography_"
        /\ FracLeq(<<6, 10>>, res.spotify_matches[k].confidence_score)

\* a request of the artist-first step was sent
ArtistFirstRan ==
    \E k \in 1..Len(request_log) :
        request_log[k].kind \in {"artist_search", "artist_albums", "album_tracks"}

\* C31: once a discography search has produced a candidate of confidence
\* >= 0.6 no further artist is searched and the general cascade is not run;
\* a returned script-variant track has been through the cascade if and only
\* if no such candidate was found; a track that is not script-variant never
\* enters the artist-first step and always goes through the cascade
C31_CascadeIffNoGoodDiscographyMatch ==
    m_result # None =>
        /\ HasGoodDiscographyMatch(m_result) =>
              /\ mpc \in {"finalize", "returned"}
              /\ m_result.search_queries_tried = << >>
              /\ search_log = << >>
        /\ (mpc = "returned" /\ ApplicableStrategies(m_track) # {}) =>
              IF IsArabicTrack(m_track)
              THEN m_result.search_queries_tried # << >>
                      <=> ~HasGoodDiscographyMatch(m_result)
              ELSE m_result.search_queries_tried # << >>
        /\ ~IsArabicTrack(m_track) =>
              /\ ~ArtistFirstRan
              /\ ~m_result.discography_search_attempted
              /\ m_result.arabic_artist_variants_tried = << >>

\* C31 witness: two artists were identified for a script-variant track, the
\* discography of the first held a good match, and the call returned without
\* searching the second artist or running the cascade
C31_Witness ==
    /\ mpc = "returned"
    /\ IsArabicTrack(m_track)
    /\ HasGoodDiscographyMatch(m_result)
    /\ Len(m_local.artists) >= 2
    /\ m_local.artist_k = 2

\* the score a catalog item gets from a strategy of the cascade
CascadeScore(track, match) == calculate_confidence(track, match.title, match.artists)[1]

\* C32: a candidate that came from a discography search carries the bonus of
\* 0.1: its score is min(1, the score the same item gets from a strategy of
\* the cascade + 0.1)
C32_DiscographyCandidatesGetBonus ==
    m_result # None =>
        \A k \in 1..Len(m_result.spotify_matches) :
            LET match == m_result.spotify_matches[k]
            IN match.match_strategy[1] = "discography_" =>
                  FracEq(match.confidence_score,
                         ClampScore(FracSum(<<CascadeScore(m_track, match), <<1, 10>> >>)))

\* C33: in the MatchResult match_track returns, spotify_matches is in
\* descending order of confidence over the whole list, and best_match is a
\* candidate of the highest confidence, None exactly when the list is empty
C33_CandidatesSortedBestIsMax ==
    mpc = "returned" =>
        LET matches == m_result.spotify_matches
        IN /\ \A i, j \in 1..Len(matches) :
                 i < j => FracLeq(matches[j].confidence_score, matches[i].confidence_score)
           /\ (m_result.best_match = None) <=> (matches = << >>)
           /\ m_result.best_match # None =>
                 /\ \E k \in 1..Len(matches) : matches[k] = m_result.best_match[1]
                 /\ \A k \in 1..Len(matches) :
                       FracLeq(matches[k].confidence_score,
                               m_result.best_match[1].confidence_score)

(***************************************************************************)
(* Properties of is_arabic_text                                            *)
(***************************************************************************)
InArabicBlock(char) == char \in ArabicChars

\* the share of Arabic characters of a text is above 30 percent
MoreThan30Percent(text) ==
    100 * Len(SelectSeq(text, InArabicBlock)) > 30 * Len(text)

\* C34: is_arabic_text(text) is true exactly when the characters of the
\* Arabic block are strictly more than 30% of the text's length; it is false
\* for the empty text and false at exactly 30%
C34_ArabicAboveThirtyPercent ==
    script_out # None =>
        /\ script_out[1] <=> MoreThan30Percent(script_text)
        /\ script_text = << >> => ~script_out[1]
        /\ 10 * Len(SelectSeq(script_text, InArabicBlock)) = 3 * Len(script_text)
              => ~script_out[1]

\* C34 witness: a text of ten characters, three of them Arabic, was found
\* not to be Arabic
C34_Witness ==
    /\ script_out = Some(FALSE)
    /\ Len(script_text) = 10
    /\ Len(SelectSeq(script_text, InArabicBlock)) = 3

(***************************************************************************)
(* Properties of the discography search                                    *)
(***************************************************************************)
\* C35: a discography search that has returned without a failed request has
\* taken for a candidate every track of the artist's first 20 albums whose
\* title similarity to the source title exceeds 0.4, and has requested no
\* album beyond the 20th
C35_FirstTwentyAlbumsSearched ==
    disc_pc = "returned" =>
        /\ \A k \in 1..Min(20, Len(disc_albums)) :
              \A j \in 1..Len(disc_albums[k]) :
                  FracLess(<<4, 10>>, similarity_score(disc_title, disc_albums[k][j].name))
                     => \E m \in 1..Len(disc_matches) : disc_matches[m] = disc_albums[k][j]
        /\ \A r \in 1..Len(disc_requested) : disc_requested[r] <= 20

C37_LastSnapshotIsTerminal ==
    \A s \in SessionIds :
        ws[s] = "closed" =>
            /\ ws_last[s] # None
            /\ ws_last[s][1].status \in TerminalStatuses

\* C38: when a _search_spotify call has been answered by the catalog with
\* tracks, no other call for the same query made within the cache's time to
\* live, and returning after it, sends a request of its own, however the two
\* tasks that share the matcher are interleaved
C38_OneRequestPerQueryAcrossTasks ==
    \A i, j \in 1..Len(search_log) :
        /\ i < j
        /\ get_cache_key(search_log[i].query) = get_cache_key(search_log[j].query)
        /\ search_log[j].at - search_log[i].at < cache_duration
        /\ search_log[i].at - search_log[j].at < cache_duration
        /\ search_log[i].outbound
        /\ search_log[i].answered
        /\ search_log[i].tracks # << >>
        => ~search_log[j].outbound

\* C39: in the MigrationReport migrate_playlists returns, the added tracks
\* of the script variant are no more than the added tracks in total:
\* arabic_tracks_added <= total_tracks_added
C39_ArabicAddedWithinTotalAdded ==
    mig_pc = "returned" => report.arabic_tracks_added <= report.total_tracks_added

====
